---------------------------- MODULE Spec2Model ----------------------------
(***************************************************************************)
(* VPG Intelligence Digest: the signal scoring engine (src/analyzer), the  *)
(* batch coordinator, the stage orchestrator with its pause/resume/cancel  *)
(* control object (src/pipeline.py), the persistence operations it uses    *)
(* (src/db.py) and the pipeline endpoints of the API server                *)
(* (src/api/server.py).                                                    *)
(*                                                                         *)
(* Numbers: relevance scores are kept in thousandths (0.4 is 400),         *)
(* composite scores in hundredths (6.8 is 680), raw dimension values sent  *)
(* by the remote backend in tenths (5.7 is 57).                            *)
(***************************************************************************)
EXTENDS Integers, Sequences, FiniteSets, TLC

Min(a, b) == IF a < b THEN a ELSE b
Max(a, b) == IF a > b THEN a ELSE b

(***************************************************************************)
(* Bounds of the model.                                                    *)
(***************************************************************************)
\* signals known to the system (ids 1..NumSignals)
NumSignals == 3
\* requests POSTed to /api/pipeline/run
MaxRequests == 3

(***************************************************************************)
(* Configuration (the Config collaborator).                                *)
(***************************************************************************)
\* scoring-weights.json, scoring_dimensions.*.weight, in percent
W_revenue_impact == 35
W_time_sensitivity == 25
W_strategic_alignment == 25
W_competitive_pressure == 15
\* thresholds.include_in_digest default, in hundredths
MIN_SCORE_DEFAULT == 400
\* thresholds.max_signals_per_digest (scaled down from its default of 25)
MAX_SIGNALS_PER_DIGEST == 2
\* pipeline.AI_BATCH_SIZE (scaled down from 10 so that a run has several batches)
AI_BATCH_SIZE == 2
\* AnalysisClient.analyze max_retries
MAX_RETRIES == 3

VALID_SIGNAL_TYPES ==
    { "competitive-threat", "revenue-opportunity", "market-shift",
      "partnership-signal", "customer-intelligence", "technology-trend",
      "trade-tariff" }

RequiredDims ==
    << "revenue_impact", "time_sensitivity", "strategic_alignment",
       "competitive_pressure" >>

\* business-units.json: each unit's vocabulary (monitoring_keywords +
\* key_products + core_industries), as the words of the model's alphabet
BusinessUnits ==
    << [id |-> "vpg-force-sensors", active |-> TRUE,
        vocab |-> <<"sensor", "load cell", "robotics", "transducer">>],
       [id |-> "kelk", active |-> TRUE,
        vocab |-> <<"gauge", "rolling mill", "steel", "laser",
                    "thickness", "tension", "mill", "metals">>],
       [id |-> "retired-unit", active |-> FALSE,
        vocab |-> <<"sensor">>] >>

\* The signals of the model: a signal's text (title + summary, lower-cased)
\* is the set of vocabulary words and classifier keywords that occur in it.
SignalIds == 1..NumSignals

SignalWords(id) ==
    CASE id = 1 -> {"sensor", "launch"}
      [] id = 2 -> {}
      [] id = 3 -> {"gauge", "tariff", "kistler"}
      [] OTHER  -> {"steel", "gauge", "partner"}

Signal(id) == [id |-> id, words |-> SignalWords(id)]

(***************************************************************************)
(* Sequence helpers.                                                       *)
(***************************************************************************)
Range(s) == { s[i] : i \in DOMAIN s }

(***************************************************************************)
(* scorer.calculate_composite_score: the weighted sum of the dimension     *)
(* scores, rounded to 2 decimals.  The weights are hundredths and the      *)
(* scores integers, so the sum in hundredths is exact.                     *)
(***************************************************************************)
\* A sum that leaves the last dimension out: C31 does not hold of it.
calculate_composite_score_ThreeDims(scores) ==
    W_revenue_impact * scores.revenue_impact
    + W_time_sensitivity * scores.time_sensitivity
    + W_strategic_alignment * scores.strategic_alignment

calculate_composite_score(scores) ==
    W_revenue_impact * scores.revenue_impact
    + W_time_sensitivity * scores.time_sensitivity
    + W_strategic_alignment * scores.strategic_alignment
    + W_competitive_pressure * scores.competitive_pressure

(***************************************************************************)
(* scorer.match_signal_to_bus                                              *)
(***************************************************************************)
\* the number of a unit's vocabulary words found in the text
RECURSIVE CountHits(_, _)
CountHits(vocab, words) ==
    IF vocab = <<>> THEN 0
    ELSE (IF Head(vocab) \in words THEN 1 ELSE 0) + CountHits(Tail(vocab), words)

\* min(0.4 + (hits / max(len(all_keywords) * 0.25, 1)) * 0.6, 1.0), rounded to
\* 3 decimals, in thousandths
RelevanceOf(hits, vocabLen) ==
    LET den == Max(vocabLen, 4)
        num == 2400 * hits
    IN  Min(400 + (2 * num + den) \div (2 * den), 1000)

\* matches.sort(key=relevance_score, reverse=True): stable
RECURSIVE InsertMatch(_, _)
InsertMatch(m, s) ==
    IF s = <<>> THEN <<m>>
    ELSE IF Head(s).relevance_score >= m.relevance_score
         THEN <<Head(s)>> \o InsertMatch(m, Tail(s))
         ELSE <<m>> \o s

RECURSIVE SortMatches(_)
SortMatches(s) ==
    IF s = <<>> THEN <<>>
    ELSE InsertMatch(s[Len(s)], SortMatches(SubSeq(s, 1, Len(s) - 1)))

RECURSIVE MatchUnits(_, _)
MatchUnits(units, words) ==
    IF units = <<>> THEN <<>>
    ELSE LET bu == Head(units)
             hits == CountHits(bu.vocab, words)
             rest == MatchUnits(Tail(units), words)
         IN  IF bu.active /\ hits > 0
             THEN <<[bu_id |-> bu.id,
                     relevance_score |-> RelevanceOf(hits, Len(bu.vocab))]>> \o rest
             ELSE rest

match_signal_to_bus(signal) == SortMatches(MatchUnits(BusinessUnits, signal.words))

(***************************************************************************)
(* Values parsed from the remote backend's JSON.  A scalar field is        *)
(* [t, v]: a number (t = "num", v its value), a non-numeric string         *)
(* ("str"), null ("null") or a missing key ("absent").                     *)
(***************************************************************************)
Num(v) == [t |-> "num", v |-> v]
Str == [t |-> "str", v |-> 0]
Null == [t |-> "null", v |-> 0]
Absent == [t |-> "absent", v |-> 0]

\* What AnalysisClient.analyze returns: None, or the parsed JSON value, which
\* is an object ("dict"), an array ("list") or anything else ("scalar").
\* about: the signal the backend wrote the object for (not a JSON field).
RawNone == [kind |-> "none"]
RawScalar == [kind |-> "scalar"]
RawList(items) == [kind |-> "list", items |-> items]
RawDict(st, bus, sc, hl, imp, about) ==
    [kind |-> "dict", signal_type |-> st, relevant_bus |-> bus, scores |-> sc,
     headline |-> hl, estimated_impact |-> imp, about |-> about]

\* relevant_bus: a list of entries ("list"), a missing key ("absent"), a falsy
\* non-list such as null or "" ("falsy"), a truthy non-list ("other")
BusList(items) == [t |-> "list", items |-> items]
BusAbsent == [t |-> "absent", items |-> <<>>]
BusFalsy == [t |-> "falsy", items |-> <<>>]
BusOther == [t |-> "other", items |-> <<>>]
\* one entry: an object with or without "bu_id", or not an object at all
BuEntry(id, rel) == [t |-> "dict", has_id |-> TRUE, bu_id |-> id, rel |-> rel]
BuEntryNoId(rel) == [t |-> "dict", has_id |-> FALSE, bu_id |-> "", rel |-> rel]
BuEntryNotDict == [t |-> "notdict", has_id |-> FALSE, bu_id |-> "", rel |-> Absent]

\* scores: an object of dimension values ("dict"), a missing key ("absent"),
\* null ("null"), or another non-object ("notdict")
DimVals(r, t, s, c) ==
    [revenue_impact |-> r, time_sensitivity |-> t,
     strategic_alignment |-> s, competitive_pressure |-> c]
ScoresDict(vals) == [t |-> "dict", vals |-> vals]
ScoresAbsent == [t |-> "absent", vals |-> DimVals(Absent, Absent, Absent, Absent)]
ScoresNull == [t |-> "null", vals |-> DimVals(Absent, Absent, Absent, Absent)]
ScoresNotDict == [t |-> "notdict", vals |-> DimVals(Absent, Absent, Absent, Absent)]

(***************************************************************************)
(* What a call gives back: a value (kind "ok"), None ("none") or a raised  *)
(* exception ("raise", exc its type).  calls: the calls made, in order.    *)
(***************************************************************************)
NoAnalysis ==
    [analysis_method |-> "none", signal_type |-> "", bu_matches |-> <<>>,
     scores |-> DimVals(0, 0, 0, 0), composite |-> 0, headline |-> "",
     estimated_impact |-> "", about |-> 0]

Ok(val, calls) == [kind |-> "ok", exc |-> "", val |-> val, calls |-> calls]
None(calls) == [kind |-> "none", exc |-> "", val |-> NoAnalysis, calls |-> calls]
Raise(exc, calls) == [kind |-> "raise", exc |-> exc, val |-> NoAnalysis, calls |-> calls]

\* the first exception of a sequence of exception names ("" = none)
RECURSIVE FirstError(_)
FirstError(errs) ==
    IF errs = <<>> THEN ""
    ELSE IF Head(errs) # "" THEN Head(errs) ELSE FirstError(Tail(errs))

\* float(x): a ValueError for a non-numeric string, a TypeError for null
FloatError(x) ==
    IF x.t = "str" THEN "ValueError" ELSE IF x.t = "null" THEN "TypeError" ELSE ""

\* int(round(x)) for x in tenths: Python rounds half to even
RoundTenths(x) ==
    LET q == x \div 10
        r == x % 10
    IN  IF r < 5 THEN q
        ELSE IF r > 5 THEN q + 1
        ELSE IF q % 2 = 0 THEN q ELSE q + 1

\* A coercion that rounds but does not clamp: C30 does not hold of it.
ClampDim_Unclamped(x) == RoundTenths(IF x.t = "absent" THEN 50 ELSE x.v)

\* max(1, min(10, int(round(float(val))))) with val = scores.get(dim, 5)
ClampDim(x) == Max(1, Min(10, RoundTenths(IF x.t = "absent" THEN 50 ELSE x.v)))

\* max(0.0, min(1.0, float(bu_match.get("relevance_score", 0.5))))
ClampRelevance(x) == Max(0, Min(1000, IF x.t = "absent" THEN 500 ELSE x.v))

\* the impact tier keyed to the revenue_impact score
ImpactTier(rev_score) ==
    IF rev_score >= 8 THEN "$1M-$5M potential revenue impact"
    ELSE IF rev_score >= 6 THEN "$500K-$2M potential revenue impact"
    ELSE IF rev_score >= 4 THEN "$200K-$500K potential revenue impact"
    ELSE "$100K-$200K potential revenue impact"

(***************************************************************************)
(* scorer._validate_ai_result                                              *)
(***************************************************************************)
\* the exception the loop over relevant_bus raises at one entry
BuEntryError(e) ==
    IF e.t # "dict" THEN "AttributeError" ELSE FloatError(e.rel)

\* the exception reading the scores raises
ScoresError(sc) ==
    IF sc.t \in {"null", "notdict"} THEN "AttributeError"
    ELSE FirstError([i \in 1..4 |-> FloatError(sc.vals[RequiredDims[i]])])

\* A test that lets the placeholder through: C35 does not hold of it.
NeedsImpactDefault_OnlyMissing(impact) == impact \in {"absent", "", "null"}

\* not result.get("estimated_impact") or result.get("estimated_impact") == "TBD"
NeedsImpactDefault(impact) == impact \in {"absent", "", "null", "TBD"}

\* A validation that keeps the signal_type it is given: C33 does not hold of
\* it.
CoerceSignalType_Keeps(signal_type) == signal_type

\* lines 112-116: a signal_type outside VALID_SIGNAL_TYPES becomes
\* "market-shift"
CoerceSignalType(signal_type) ==
    IF signal_type \in VALID_SIGNAL_TYPES THEN signal_type ELSE "market-shift"

ValidatedScores(sc) ==
    DimVals(ClampDim(sc.vals.revenue_impact), ClampDim(sc.vals.time_sensitivity),
            ClampDim(sc.vals.strategic_alignment),
            ClampDim(sc.vals.competitive_pressure))

\* the result, normalized in place; estimated_impact is replaced when it is
\* missing, empty, null or "TBD"
ValidatedResult(result) ==
    LET scores == ValidatedScores(result.scores)
    IN  [signal_type |-> CoerceSignalType(result.signal_type),
         relevant_bus |-> [i \in DOMAIN result.relevant_bus.items |->
                             [has_id |-> result.relevant_bus.items[i].has_id,
                              bu_id |-> result.relevant_bus.items[i].bu_id,
                              relevance_score |->
                                  ClampRelevance(result.relevant_bus.items[i].rel)]],
         scores |-> scores,
         headline |-> IF result.headline = "absent"
                      THEN "Industry Signal Detected" ELSE result.headline,
         estimated_impact |-> IF NeedsImpactDefault(result.estimated_impact)
                              THEN ImpactTier(scores.revenue_impact)
                              ELSE result.estimated_impact,
         about |-> result.about]

NoValidated ==
    [signal_type |-> "", relevant_bus |-> <<>>, scores |-> DimVals(0, 0, 0, 0),
     headline |-> "", estimated_impact |-> "", about |-> 0]

_validate_ai_result(result) ==
    IF result.kind # "dict" THEN [kind |-> "none", exc |-> "", val |-> NoValidated]
    ELSE IF result.relevant_bus.t # "list" \/ result.relevant_bus.items = <<>>
    THEN [kind |-> "none", exc |-> "", val |-> NoValidated]
    ELSE LET busErr == FirstError([i \in DOMAIN result.relevant_bus.items |->
                                      BuEntryError(result.relevant_bus.items[i])])
             err == IF busErr # "" THEN busErr ELSE ScoresError(result.scores)
         IN  IF err # "" THEN [kind |-> "raise", exc |-> err, val |-> NoValidated]
             ELSE [kind |-> "ok", exc |-> "", val |-> ValidatedResult(result)]

(***************************************************************************)
(* The analysis built from a validated result: composite, bu_matches and   *)
(* the method tag (score_signal_ai lines 183-192, score_batch_ai 449-454). *)
(***************************************************************************)
\* bu["bu_id"] for every entry: a KeyError at an entry without the key
BuMatchesError(validated) ==
    IF \E i \in DOMAIN validated.relevant_bus : ~validated.relevant_bus[i].has_id
    THEN "KeyError" ELSE ""

AnalysisFrom(validated, method) ==
    [analysis_method |-> method,
     signal_type |-> validated.signal_type,
     bu_matches |-> [i \in DOMAIN validated.relevant_bus |->
                        [bu_id |-> validated.relevant_bus[i].bu_id,
                         relevance_score |-> validated.relevant_bus[i].relevance_score]],
     scores |-> validated.scores,
     composite |-> calculate_composite_score(validated.scores),
     headline |-> validated.headline,
     estimated_impact |-> validated.estimated_impact,
     about |-> validated.about]

(***************************************************************************)
(* scorer.score_signal_ai.  available: client.available.  raw: what        *)
(* client.analyze returns for this request (read only if the call is made).*)
(***************************************************************************)
\* A remote path that lets the failure of the backend out as an exception
\* instead of returning None: C8 does not hold of it.
score_signal_ai_Propagates(signal, available, raw) ==
    IF ~available THEN None(<<"score_signal_ai">>)
    ELSE IF raw.kind = "none" THEN Raise("APIError", <<"score_signal_ai", "analyze">>)
    ELSE Raise("APIError", <<"score_signal_ai", "analyze", "_validate_ai_result">>)

score_signal_ai(signal, available, raw) ==
    IF ~available THEN None(<<"score_signal_ai">>)
    ELSE IF raw.kind = "none" THEN None(<<"score_signal_ai", "analyze">>)
    ELSE LET v == _validate_ai_result(raw)
             calls == <<"score_signal_ai", "analyze", "_validate_ai_result">>
         IN  IF v.kind = "raise" THEN Raise(v.exc, calls)
             ELSE IF v.kind = "none" THEN None(calls)
             ELSE IF BuMatchesError(v.val) # "" THEN Raise(BuMatchesError(v.val), calls)
             \* logger.info(..., result["headline"][:50], ...): None[:50]
             ELSE IF v.val.headline = "null" THEN Raise("TypeError", calls)
             ELSE Ok(AnalysisFrom(v.val, "ai"), calls)

(***************************************************************************)
(* scorer.score_signal_heuristic                                           *)
(***************************************************************************)
HasAny(words, family) == words \cap family # {}

\* A classifier that tests the tariff family before the opportunity family:
\* C34 does not hold of it.
ClassifyHeuristic_TariffFirst(words) ==
    IF HasAny(words, {"competitor", "competes", "launch", "threat", "rival"})
    THEN "competitive-threat"
    ELSE IF HasAny(words, {"tariff", "trade", "duty", "import", "export"})
    THEN "trade-tariff"
    ELSE IF HasAny(words, {"rfi", "rfp", "order", "partner", "revenue",
                           "opportunity", "seeking"})
    THEN "revenue-opportunity"
    ELSE IF HasAny(words, {"acqui", "partner", "alliance", "joint venture"})
    THEN "partnership-signal"
    ELSE IF HasAny(words, {"patent", "innovation", "breakthrough", "technology"})
    THEN "technology-trend"
    ELSE "market-shift"

\* first matching keyword family wins
ClassifyHeuristic(words) ==
    IF HasAny(words, {"competitor", "competes", "launch", "threat", "rival"})
    THEN "competitive-threat"
    ELSE IF HasAny(words, {"rfi", "rfp", "order", "partner", "revenue",
                           "opportunity", "seeking"})
    THEN "revenue-opportunity"
    ELSE IF HasAny(words, {"tariff", "trade", "duty", "import", "export"})
    THEN "trade-tariff"
    ELSE IF HasAny(words, {"acqui", "partner", "alliance", "joint venture"})
    THEN "partnership-signal"
    ELSE IF HasAny(words, {"patent", "innovation", "breakthrough", "technology"})
    THEN "technology-trend"
    ELSE "market-shift"

BaseRevenue(signal_type) ==
    CASE signal_type \in {"revenue-opportunity", "trade-tariff"} -> 7
      [] signal_type = "partnership-signal" -> 6
      [] OTHER -> 5

BaseTime(signal_type) ==
    IF signal_type \in {"competitive-threat", "revenue-opportunity"} THEN 7 ELSE 5

BaseCompetitive(signal_type) ==
    CASE signal_type = "competitive-threat" -> 7
      [] signal_type = "trade-tariff" -> 6
      [] OTHER -> 4

\* max(4, min(int(bu_matches[0]["relevance_score"] * 10), 10)), or 3 without a match
Alignment(bu_matches) ==
    IF bu_matches # <<>>
    THEN Max(4, Min(bu_matches[1].relevance_score \div 100, 10))
    ELSE 3

\* scorer._estimate_impact_heuristic for a text that names no dollar amount
EstimateImpactHeuristic(signal_type, scores) ==
    IF signal_type = "competitive-threat"
    THEN (IF scores.revenue_impact >= 7 THEN "Defensive - protect $1M+ revenue"
          ELSE "Defensive - protect $500K+ revenue")
    ELSE IF signal_type = "trade-tariff"
    THEN (IF scores.revenue_impact >= 7
          THEN "Cost advantage - $1M+ competitive benefit"
          ELSE "Cost advantage - $200K-$500K competitive benefit")
    ELSE ImpactTier(scores.revenue_impact)

score_signal_heuristic(signal) ==
    LET bu_matches == match_signal_to_bus(signal)
        signal_type == ClassifyHeuristic(signal.words)
        scores == DimVals(BaseRevenue(signal_type), BaseTime(signal_type),
                          Alignment(bu_matches), BaseCompetitive(signal_type))
    IN  [analysis_method |-> "heuristic",
         signal_type |-> signal_type,
         bu_matches |-> bu_matches,
         scores |-> scores,
         composite |-> calculate_composite_score(scores),
         headline |-> "signal title",
         estimated_impact |-> EstimateImpactHeuristic(signal_type, scores),
         about |-> signal.id]

(***************************************************************************)
(* The classification of score_signal_heuristic (lines 319-331) applied to *)
(* a text.                                                                 *)
(***************************************************************************)
VARIABLES
    hcText,   \* the words of the text classified last
    hcType    \* the signal_type it got, "" before the first call

heurVars == << hcText, hcType >>

\* words a text is made of: keywords of every family ("partner" is in two),
\* and a word that is no keyword
TextWords ==
    { "launch", "order", "partner", "tariff", "acqui", "patent", "sensor" }

HeuristicIdle ==
    /\ hcText = {}
    /\ hcType = ""

Classifies ==
    \E words \in SUBSET TextWords :
        /\ hcText' = words
        /\ hcType' = ClassifyHeuristic(words)

(***************************************************************************)
(* scorer.score_signal: the remote path first, the heuristic on None.      *)
(***************************************************************************)
\* An entry point that never tries the remote path: C1 does not hold of it.
score_signal_AlwaysHeuristic(signal, available, raw) ==
    Ok(score_signal_heuristic(signal), <<"score_signal_heuristic">>)

score_signal(signal, available, raw) ==
    LET result == score_signal_ai(signal, available, raw)
    IN  IF result.kind = "raise" THEN result
        ELSE IF result.kind = "ok" THEN result
        ELSE Ok(score_signal_heuristic(signal),
                result.calls \o <<"score_signal_heuristic">>)

(***************************************************************************)
(* client.AnalysisClient.analyze: up to max_retries requests.  attempts[k] *)
(* is what the k-th request meets: a rate-limit error, an API error, any   *)
(* other exception ("error"), or a response text ("text") whose parsed     *)
(* JSON is raw (RawNone when _parse_json_response cannot parse it).        *)
(***************************************************************************)
RECURSIVE AnalyzeFrom(_, _)
AnalyzeFrom(attempts, k) ==
    IF k > MAX_RETRIES THEN RawNone
    ELSE IF attempts[k].t = "text" THEN attempts[k].raw
    ELSE IF attempts[k].t \in {"rate_limit", "api_error"} THEN AnalyzeFrom(attempts, k + 1)
    ELSE RawNone

analyze(attempts) == AnalyzeFrom(attempts, 1)

\* the attempts analyze actually makes, in order
RECURSIVE AttemptsMade(_, _)
AttemptsMade(attempts, k) ==
    IF k > MAX_RETRIES THEN <<>>
    ELSE IF attempts[k].t \in {"rate_limit", "api_error"}
         THEN <<attempts[k].t>> \o AttemptsMade(attempts, k + 1)
         ELSE <<attempts[k].t>>

Failure(t) == [t |-> t, raw |-> RawNone]
Text(raw) == [t |-> "text", raw |-> raw]

\* What the backend can do to one analyze call whose responses are drawn from
\* Raws: fail j times (j < max_retries) and then answer or break, or fail
\* max_retries times.
AttemptSeqs(Raws) ==
    LET Transient == {Failure("rate_limit"), Failure("api_error")}
        Final == {Text(r) : r \in Raws} \cup {Failure("error")}
        Pad(s) == [k \in 1..MAX_RETRIES |-> IF k <= Len(s) THEN s[k] ELSE Failure("error")]
    IN  UNION { { Pad(pre \o <<f>>) : pre \in [1..j -> Transient], f \in Final }
                : j \in 0..(MAX_RETRIES - 1) }
        \cup [1..MAX_RETRIES -> Transient]

\* The same with fewer failures: the first request is answered or breaks, or
\* every request meets the rate limit.
FirstAnswers(Raws) ==
    { [k \in 1..MAX_RETRIES |-> IF k = 1 THEN f ELSE Failure("error")]
        : f \in {Text(r) : r \in Raws} \cup {Failure("error")} }
    \cup { [k \in 1..MAX_RETRIES |-> Failure("rate_limit")] }

(***************************************************************************)
(* The responses of the remote backend.                                    *)
(***************************************************************************)
GoodBus == BusList(<<BuEntry("kelk", Num(800))>>)
GoodScores == ScoresDict(DimVals(Num(70), Num(60), Num(80), Num(40)))
GoodObject(id) == RawDict("competitive-threat", GoodBus, GoodScores, "remote", "remote", id)

\* objects that differ from a good one in one field
ObjectVariants(id) ==
    { RawDict(st, GoodBus, GoodScores, "remote", "remote", id)
        : st \in {"invalid-type", "absent", "trade-tariff"} }
    \cup { RawDict("competitive-threat", bus, GoodScores, "remote", "remote", id)
        : bus \in { BusAbsent, BusFalsy, BusOther, BusList(<<>>),
                    BusList(<<BuEntryNotDict>>),
                    BusList(<<BuEntryNoId(Num(500))>>),
                    BusList(<<BuEntry("kelk", Str)>>),
                    BusList(<<BuEntry("kelk", Null)>>),
                    BusList(<<BuEntry("kelk", Absent)>>),
                    BusList(<<BuEntry("kelk", Num(1500))>>),
                    BusList(<<BuEntry("vpg-force-sensors", Num(-200)),
                              BuEntry("kelk", Num(900))>>) } }
    \cup { RawDict("competitive-threat", GoodBus, sc, "remote", "remote", id)
        : sc \in { ScoresAbsent, ScoresNull, ScoresNotDict,
                   ScoresDict(DimVals(Num(150), Num(-30), Num(57), Num(0))),
                   ScoresDict(DimVals(Num(25), Num(35), Num(45), Absent)),
                   ScoresDict(DimVals(Str, Num(60), Num(80), Num(40))),
                   ScoresDict(DimVals(Num(70), Num(60), Num(80), Null)) } }
    \cup { RawDict("competitive-threat", GoodBus, GoodScores, hl, "remote", id)
        : hl \in {"absent", "null"} }
    \cup { RawDict("competitive-threat", GoodBus, GoodScores, "remote", imp, id)
        : imp \in {"absent", "", "null", "TBD"} }
    \cup { RawDict("competitive-threat", GoodBus,
                   ScoresDict(DimVals(Num(rev), Num(60), Num(80), Num(40))),
                   "remote", "TBD", id)
        : rev \in {95, 80, 59, 35, 25} }

\* every shape of response to a single-signal request
AllResponses(id) ==
    {RawNone, RawScalar, RawList(<<>>), GoodObject(id)} \cup ObjectVariants(id)

\* the elements of a batch response
AllElements(id) ==
    { RawScalar, GoodObject(id),
      RawDict("competitive-threat", BusList(<<>>), GoodScores, "remote", "remote", id),
      RawDict("competitive-threat", BusList(<<BuEntryNotDict>>), GoodScores,
              "remote", "remote", id),
      RawDict("competitive-threat", BusList(<<BuEntryNoId(Num(500))>>), GoodScores,
              "remote", "remote", id),
      RawDict("competitive-threat", GoodBus, GoodScores, "null", "TBD", id) }

\* a valid object whose composite is below the include_in_digest threshold
LowScores == ScoresDict(DimVals(Num(20), Num(30), Num(20), Num(10)))
LowObject(id) == RawDict("market-shift", GoodBus, LowScores, "remote", "remote", id)

\* a few shapes: a good object, a low-scored one, a rejected one, one that
\* makes validation raise
FewResponses(id) ==
    { RawNone, GoodObject(id), LowObject(id),
      RawDict("competitive-threat", BusList(<<>>), GoodScores, "remote", "remote", id),
      RawDict("competitive-threat", GoodBus, ScoresNull, "remote", "remote", id) }

FewElements(id) == FewResponses(id) \ {RawNone}

\* every shape of response to a batch request for signals ids, its elements
\* drawn from Elements[id]: nothing, a non-array, an array one short, one
\* long or of the right length
BatchResponses(ids, Elements) ==
    LET n == Len(ids)
        Lists(m) == { RawList(items) : items \in
                        { f \in [1..m -> UNION { Elements[ids[i]] : i \in 1..n }] :
                            \A k \in 1..Min(m, n) : f[k] \in Elements[ids[k]] } }
    IN  {RawNone, RawScalar, GoodObject(ids[1])}
        \cup Lists(n)
        \cup { RawList([k \in 1..(n - 1) |-> GoodObject(ids[k])]),
               RawList([k \in 1..(n + 1) |-> GoodObject(ids[IF k <= n THEN k ELSE 1])]) }

(***************************************************************************)
(* client.AnalysisClient.analyze, request by request: the loop             *)
(* for attempt in range(max_retries) of lines 88-119.                      *)
(***************************************************************************)
VARIABLES
    anPc,        \* "idle", "loop" (at the head of the loop), "done"
    anAvail,     \* self.available
    anBackend,   \* what the backend does to the k-th request of the call
    anAttempt,   \* the loop variable attempt
    anRequests,  \* the requests made to the backend so far
    anSleeps,    \* the arguments of the time.sleep calls, in order
    anResult     \* the return value

clientVars ==
    << anPc, anAvail, anBackend, anAttempt, anRequests, anSleeps, anResult >>


(***************************************************************************)
(* State of one stage_deliver call with its send_email calls                *)
(* (delivery/gmail.py, pipeline.py:320-352).                                *)
(*   dlPc       "idle", "loop" (at the head of the recipient loop), "send"  *)
(*              (inside send_email), "done", "raised"                       *)
(*   dlMode     DELIVERY_MODE                                               *)
(*   dlIdx      the recipient the loop is at                                *)
(*   dlResults  results, the list stage_deliver returns; each result also   *)
(*              carries, as history, the recipient and what each attempt of *)
(*              its send_email call met                                     *)
(*   dlExc      the exception that left stage_deliver                       *)
(*   seAttempt  attempt, the loop variable of send_email                    *)
(*   seTrace    history: what the attempts of this send_email call met      *)
(*   seSleeps   the waits of this send_email call, in seconds               *)
(***************************************************************************)
VARIABLES dlPc, dlMode, dlIdx, dlResults, dlExc, seAttempt, seTrace, seSleeps

mailVars == << dlPc, dlMode, dlIdx, dlResults, dlExc, seAttempt, seTrace, seSleeps >>

(***************************************************************************)
(* The background threads of the API between _run_pipeline_bg and the      *)
(* check_points of run_full_pipeline (api/server.py:353-435,               *)
(* pipeline.py:354-372).                                                    *)
(*   rcPc        where the thread of a request is: "idle", "reset" (the    *)
(*               flag running is set, pipeline_control.reset() not yet     *)
(*               called), "cp" (before a check_point), "end"               *)
(*   rcChecks    the check_points the thread has passed                    *)
(*   rcAccepted  history: the requests ("pause", "cancel") the API has     *)
(*               accepted since running was set and that no resume has     *)
(*               taken back; "erased" once a reset() was called over them  *)
(***************************************************************************)
VARIABLES rcPc, rcChecks, rcAccepted

raceVars == << rcPc, rcChecks, rcAccepted >>

\* history: the status and the signal_bus rows each signal had when the run
\* began
VARIABLE dbLeft

extraVars == << clientVars, heurVars, mailVars, raceVars, dbLeft >>

NoBackend == [k \in 1..MAX_RETRIES |-> Failure("error")]

ClientIdle ==
    /\ anPc = "idle"
    /\ anAvail = FALSE
    /\ anBackend = NoBackend
    /\ anAttempt = 0
    /\ anRequests = 0
    /\ anSleeps = <<>>
    /\ anResult = RawNone

\* A wait that does not grow: C32 does not hold of it.
BackoffWait_Constant(attempt) == 2

\* wait = 2 ** (attempt + 1)
BackoffWait(attempt) == 2 ^ (attempt + 1)

\* analyze(system_prompt, user_prompt) is called; lines 84-86: without a
\* configured client it returns None at once
AnalyzeBegins ==
    /\ anPc = "idle"
    /\ \E available \in BOOLEAN, backend \in AttemptSeqs(AllResponses(1)) :
         /\ anAvail' = available
         /\ anBackend' = backend
         /\ anPc' = IF available THEN "loop" ELSE "done"
    /\ anAttempt' = 0
    /\ anRequests' = 0
    /\ anSleeps' = <<>>
    /\ anResult' = RawNone

\* one round of the loop: messages.create and _parse_json_response, or one of
\* the three except clauses; after the last round lines 121-122
AnalyzeAttempt ==
    /\ anPc = "loop"
    /\ IF anAttempt >= MAX_RETRIES
       THEN /\ anResult' = RawNone
            /\ anPc' = "done"
            /\ UNCHANGED << anAttempt, anRequests, anSleeps >>
       ELSE LET met == anBackend[anAttempt + 1]
            IN  /\ anRequests' = anRequests + 1
                /\ CASE met.t = "text" ->
                          /\ anResult' = met.raw
                          /\ anPc' = "done"
                          /\ UNCHANGED << anAttempt, anSleeps >>
                     [] met.t = "rate_limit" ->
                          /\ anSleeps' = Append(anSleeps, BackoffWait(anAttempt))
                          /\ anAttempt' = anAttempt + 1
                          /\ UNCHANGED << anResult, anPc >>
                     [] met.t = "api_error" ->
                          /\ anSleeps' = IF anAttempt < MAX_RETRIES - 1
                                         THEN Append(anSleeps, BackoffWait(anAttempt))
                                         ELSE anSleeps
                          /\ anAttempt' = anAttempt + 1
                          /\ UNCHANGED << anResult, anPc >>
                     [] OTHER ->
                          /\ anResult' = RawNone
                          /\ anPc' = "done"
                          /\ UNCHANGED << anAttempt, anSleeps >>
    /\ UNCHANGED << anAvail, anBackend >>

\* the caller has the return value; the next call can begin
AnalyzeReturns ==
    /\ anPc = "done"
    /\ anPc' = "idle"
    /\ anAvail' = FALSE
    /\ anBackend' = NoBackend
    /\ anAttempt' = 0
    /\ anRequests' = 0
    /\ anSleeps' = <<>>
    /\ anResult' = RawNone

(***************************************************************************)
(* State of one scoring call (score_signal, score_batch_ai, or the list    *)
(* comprehension of score_signal calls in stage_score).                    *)
(***************************************************************************)
VARIABLES
    scEntry,      \* the function called: "", "score_signal", "score_batch_ai", "score_each"
    scPc,         \* "idle", "batch" (before the batch request), "elem" (zipping the
                  \* batch response), "each" (scoring one by one), "done"
    scSignals,    \* the signals argument: a sequence of signal ids
    scAvail,      \* client.available
    scRaw,        \* raw_result of the batch request of score_batch_ai; the response
                  \* to the request of a direct score_signal call
    scResults,    \* the analyses built so far, in order
    scExc,        \* the exception that left the call, "" if none
    scCalls,      \* the calls made, in order: [fn, sig]
    scDown        \* every request made to the backend so far met a rate-limit
                  \* or API error

scorerVars ==
    << scEntry, scPc, scSignals, scAvail, scRaw, scResults, scExc, scCalls,
       scDown >>

ScorerIdle ==
    /\ scEntry = ""
    /\ scPc = "idle"
    /\ scSignals = <<>>
    /\ scAvail = FALSE
    /\ scRaw = RawNone
    /\ scResults = <<>>
    /\ scExc = ""
    /\ scCalls = <<>>
    /\ scDown = TRUE

ScReset ==
    /\ scEntry' = ""
    /\ scPc' = "idle"
    /\ scSignals' = <<>>
    /\ scAvail' = FALSE
    /\ scRaw' = RawNone
    /\ scResults' = <<>>
    /\ scExc' = ""
    /\ scCalls' = <<>>
    /\ scDown' = TRUE

Tagged(calls, sig) == [i \in DOMAIN calls |-> [fn |-> calls[i], sig |-> sig]]

\* every request of one analyze call met a rate-limit or API error
AllTransient(attempts) ==
    \A k \in DOMAIN AttemptsMade(attempts, 1) :
        AttemptsMade(attempts, 1)[k] \in {"rate_limit", "api_error"}

\* the same for a call that is made only if score_signal_ai reaches analyze
TransientIfCalled(available, attempts) == available => AllTransient(attempts)

\* a call begins: entry(signals, client)
ScBegin(entry, ids, available) ==
    /\ scEntry' = entry
    /\ scPc' = IF entry = "score_batch_ai" THEN "batch" ELSE "each"
    /\ scSignals' = ids
    /\ scAvail' = available
    /\ scRaw' = RawNone
    /\ scResults' = <<>>
    /\ scExc' = ""
    /\ scCalls' = <<>>
    /\ scDown' = TRUE

\* the signal the loop of the call is at
NextSignal == scSignals[Len(scResults) + 1]

\* score_batch_ai lines 431 and 435: the batch response is not trusted at all
BatchDiscarded(raw, n) ==
    \/ raw.kind # "list"
    \/ Len(raw.items) # n

\* results.append(validated)
AppendResult(results, analysis) == Append(results, analysis)

\* score_batch_ai up to the batch request and the checks of its response;
\* BatchAttempts: what the backend can do to the batch request
ScBatchRequest(BatchAttempts) ==
    /\ scPc = "batch"
    /\ IF ~scAvail \/ scSignals = <<>>
       THEN /\ scResults' = [i \in DOMAIN scSignals |->
                                score_signal_heuristic(Signal(scSignals[i]))]
            /\ scCalls' = [i \in DOMAIN scSignals |->
                             [fn |-> "score_signal_heuristic", sig |-> scSignals[i]]]
            /\ scPc' = "done"
            /\ UNCHANGED << scRaw, scDown >>
       ELSE \E attempts \in BatchAttempts :
              LET raw == analyze(attempts)
              IN  /\ scRaw' = raw
                  /\ scDown' = (scDown /\ AllTransient(attempts))
                  /\ scCalls' = Append(scCalls, [fn |-> "analyze", sig |-> 0])
                  /\ scPc' = IF BatchDiscarded(raw, Len(scSignals)) THEN "each" ELSE "elem"
                  /\ UNCHANGED scResults
    /\ UNCHANGED << scEntry, scSignals, scAvail, scExc >>

\* one round of the loop over zip(signals, raw_result); Attempts: what the
\* backend can do to the request of a score_signal call for this signal
ScBatchElement(Attempts) ==
    /\ scPc = "elem"
    /\ LET i == Len(scResults) + 1
       IN  IF i > Min(Len(scSignals), Len(scRaw.items))
           THEN /\ scPc' = "done"
                /\ UNCHANGED << scResults, scExc, scCalls, scDown >>
           ELSE LET validated == _validate_ai_result(scRaw.items[i])
                    sig == scSignals[i]
                IN  CASE validated.kind = "raise" ->
                           /\ scExc' = validated.exc
                           /\ scPc' = "done"
                           /\ scCalls' = Append(scCalls, [fn |-> "_validate_ai_result", sig |-> sig])
                           /\ UNCHANGED << scResults, scDown >>
                      [] validated.kind = "ok" ->
                           /\ scCalls' = Append(scCalls, [fn |-> "_validate_ai_result", sig |-> sig])
                           /\ IF BuMatchesError(validated.val) # ""
                              THEN /\ scExc' = BuMatchesError(validated.val)
                                   /\ scPc' = "done"
                                   /\ UNCHANGED scResults
                              ELSE /\ scResults' = AppendResult(scResults,
                                                      AnalysisFrom(validated.val, "ai-batch"))
                                   /\ UNCHANGED << scExc, scPc >>
                           /\ UNCHANGED scDown
                      [] OTHER ->
                           \E attempts \in Attempts :
                             LET out == score_signal(Signal(sig), scAvail, analyze(attempts))
                             IN  /\ scCalls' = scCalls
                                       \o <<[fn |-> "_validate_ai_result", sig |-> sig]>>
                                       \o Tagged(out.calls, sig)
                                 /\ scDown' = (scDown /\ TransientIfCalled(scAvail, attempts))
                                 /\ IF out.kind = "raise"
                                    THEN /\ scExc' = out.exc
                                         /\ scPc' = "done"
                                         /\ UNCHANGED scResults
                                    ELSE /\ scResults' = AppendResult(scResults, out.val)
                                         /\ UNCHANGED << scExc, scPc >>
    /\ UNCHANGED << scEntry, scSignals, scAvail, scRaw >>

\* one score_signal call of [score_signal(s, client) for s in signals];
\* Attempts: what the backend can do to its request
ScEach(Attempts) ==
    /\ scPc = "each"
    /\ LET i == Len(scResults) + 1
       IN  IF i > Len(scSignals)
           THEN /\ scPc' = "done"
                /\ UNCHANGED << scRaw, scResults, scExc, scCalls, scDown >>
           ELSE \E attempts \in Attempts :
                  LET out == score_signal(Signal(scSignals[i]), scAvail, analyze(attempts))
                  IN  /\ scRaw' = IF scEntry = "score_signal" THEN analyze(attempts) ELSE scRaw
                      /\ scCalls' = scCalls \o Tagged(out.calls, scSignals[i])
                      /\ scDown' = (scDown /\ TransientIfCalled(scAvail, attempts))
                      /\ IF out.kind = "raise"
                         THEN /\ scExc' = out.exc
                              /\ scPc' = "done"
                              /\ UNCHANGED scResults
                         ELSE /\ scResults' = AppendResult(scResults, out.val)
                              /\ UNCHANGED << scExc, scPc >>
    /\ UNCHANGED << scEntry, scSignals, scAvail >>

(***************************************************************************)
(* The scoring engine on its own: any call, any client, any backend.       *)
(***************************************************************************)
\* what the backend does to the requests of a direct call: every shape of
\* response to score_signal; the shapes of the batch elements to the
\* score_signal calls score_batch_ai falls back to
ScorerAttempts(id) ==
    IF scEntry = "score_signal" THEN FirstAnswers(AllResponses(id))
    ELSE FirstAnswers(AllElements(id) \cup {RawNone})
ScorerBatchAttempts(ids) ==
    FirstAnswers(BatchResponses(ids, [id \in SignalIds |-> AllElements(id)]))

\* the signal lists of at most AI_BATCH_SIZE distinct signals
SignalLists ==
    UNION { { f \in [1..n -> SignalIds] : \A a, b \in 1..n : a # b => f[a] # f[b] }
            : n \in 0..AI_BATCH_SIZE }

ScCall ==
    /\ scPc = "idle"
    /\ \E available \in BOOLEAN :
         \/ \E id \in SignalIds : ScBegin("score_signal", <<id>>, available)
         \/ \E ids \in SignalLists : ScBegin("score_batch_ai", ids, available)

\* the call returns (or raises) and the next one can begin
ScReturn ==
    /\ scPc = "done"
    /\ ScReset

(***************************************************************************)
(* State of the API server (src/api/server.py): the module-level           *)
(* _pipeline_status, the handlers of POST /api/pipeline/run and the        *)
(* background threads they start.                                          *)
(***************************************************************************)
VARIABLES
    apiRunning,    \* _pipeline_status["running"]
    apiLastResult, \* _pipeline_status["last_result"]["status"] ("" = None)
    reqPc,         \* by request: "idle", "checked" (past line 386), "accepted", "rejected"
    bgPc           \* by request: the thread it started: "none", "spawned",
                   \* "running" (inside the try block), "ran", "finished"

apiVars == << apiRunning, apiLastResult, reqPc, bgPc >>

Requests == 1..MaxRequests

(***************************************************************************)
(* The processes that run the pipeline, one after the other: the API       *)
(* server (api/server.py, started by uvicorn) and the scheduler            *)
(* (scripts/scheduler.py).                                                 *)
(***************************************************************************)
VARIABLES
    procKind,   \* the process that is up: "server", "scheduler", "" for none
    procPc,     \* "down", "startup" (starting), "up" (startup has completed)
    procRun,    \* the rowid of the run the process is executing, 0 for none
    procStale,  \* history: the runs that were running when their process exited
    procBoots   \* history: the processes started so far

procVars == << procKind, procPc, procRun, procStale, procBoots >>

\* the processes a behaviour starts at most, and the rows of pipeline_runs
MaxBoots == 3
MaxRunRecords == 3

(***************************************************************************)
(* trends/tracker.py.  Scores are composites in hundredths,                *)
(* week_over_week_change is in tenths of a percent, a date is the place of *)
(* its ISO week in Calendar.  An intermediate result that is used more    *)
(* than once is bound as the one element of a set (x \in {e}): TLC then    *)
(* computes it once.                                                       *)
(***************************************************************************)
VARIABLES
    trTrends,     \* the table trends, in rowid order (id = place)
    trSnapshots,  \* the table trend_snapshots, in rowid order
    trNow,        \* datetime.now(): a place in Calendar
    trResult,     \* what the last update_trends call returned
    trHist        \* history of the update_trends calls, for stating properties

trendVars == << trTrends, trSnapshots, trNow, trResult, trHist >>

\* the update_trends calls a behaviour of SpecTrends makes at most
MaxTrendCalls == 3

\* the ISO weeks the calls fall in: the same week number in two years
Calendar ==
    << [week |-> 52, year |-> 2025], [week |-> 1, year |-> 2026],
       [week |-> 52, year |-> 2026] >>

_get_current_week(now) == Calendar[now]

Competitors ==
    { "kistler", "hbk", "zemic", "rice lake", "tt electronics", "kyowa", "flintec",
      "omega", "novanta", "figure ai", "boston dynamics", "sunrise instruments" }

\* round(n / d) for d > 0: Python rounds half to even
RoundDiv(n, d) ==
    LET q == n \div d
        r == n % d
    IN  IF 2 * r > d THEN q + 1
        ELSE IF 2 * r < d THEN q
        ELSE IF q % 2 = 0 THEN q ELSE q + 1

\* one row of the SELECT of lines 46-53 with the signal's rows of signal_bus
\* (lines 60-62) and the competitors its text names (lines 106-113)
TrendRow(id, analysis, bus) ==
    [id |-> id,
     sig_type |-> analysis[id].signal_type,
     score |-> analysis[id].composite,
     bus |-> { r.bu_id : r \in bus[id] },
     mentions |-> Competitors \cap SignalWords(id)]

\* ORDER BY sa.score_composite DESC (rows of equal score in rowid order)
RECURSIVE InsertRow(_, _)
InsertRow(x, s) ==
    IF s = <<>> THEN <<x>>
    ELSE IF Head(s).score >= x.score
         THEN <<Head(s)>> \o InsertRow(x, Tail(s))
         ELSE <<x>> \o s

\* the signals with status scored or published that have an analysis
RECURSIVE ScoredRows(_, _, _, _)
ScoredRows(n, status, analysis, bus) ==
    IF n = 0 THEN <<>>
    ELSE CHOOSE rows \in
            { IF status[n] \in {"scored", "published"} /\ analysis[n] # NoAnalysis
              THEN InsertRow(TrendRow(n, analysis, bus), rest)
              ELSE rest :
              rest \in {ScoredRows(n - 1, status, analysis, bus)} } : TRUE

\* the trend keys
BuTypeKey(bu_id, sig_type) == bu_id \o ":" \o sig_type
TypeKey(sig_type) == "type:" \o sig_type
BuKey(bu_id) == "bu:" \o bu_id
CompetitorKey(comp) == "competitor:" \o comp

\* the keys a signal contributes to (lines 75-120)
RowKeys(row) ==
    { BuTypeKey(b, row.sig_type) : b \in row.bus }
    \cup { TypeKey(row.sig_type) }
    \cup { BuKey(b) : b \in row.bus }
    \cup { CompetitorKey(c) : c \in row.mentions }

\* A loop that counts the signal type once more inside the loop over the
\* units: C22 does not hold of it.
Contributions_TypePerUnit(key, row) ==
    Cardinality({ b \in row.bus : BuTypeKey(b, row.sig_type) = key })
    + (IF TypeKey(row.sig_type) = key THEN 1 + Cardinality(row.bus) ELSE 0)
    + Cardinality({ b \in row.bus : BuKey(b) = key })
    + Cardinality({ c \in row.mentions : CompetitorKey(c) = key })

\* how many times the loop body adds the signal to aggregations[key]
Contributions(key, row) ==
    Cardinality({ b \in row.bus : BuTypeKey(b, row.sig_type) = key })
    + (IF TypeKey(row.sig_type) = key THEN 1 ELSE 0)
    + Cardinality({ b \in row.bus : BuKey(b) = key })
    + Cardinality({ c \in row.mentions : CompetitorKey(c) = key })

\* agg["trend_type"] after the signal's last contribution to the key
RowTrendType(key, row) ==
    IF \E c \in row.mentions : CompetitorKey(c) = key THEN "competitor"
    ELSE IF \E b \in row.bus : BuKey(b) = key THEN "business_unit"
    ELSE IF TypeKey(row.sig_type) = key THEN "signal_type"
    ELSE "bu_signal_type"

AggKeys(rows) == UNION { RowKeys(rows[i]) : i \in DOMAIN rows }

\* aggregations[key]: count, sum(scores), max(scores), signal_ids[0] and
\* trend_type
RECURSIVE Aggregate(_, _)
Aggregate(key, rows) ==
    IF rows = <<>>
    THEN [count |-> 0, sum |-> 0, max |-> 0, top |-> 0, trend_type |-> ""]
    ELSE LET row == Head(rows)
             n == Contributions(key, row)
         IN  CHOOSE agg \in
                { IF n = 0 THEN rest
                  ELSE [count |-> n + rest.count,
                        sum |-> n * row.score + rest.sum,
                        max |-> IF rest.count = 0 THEN row.score
                                ELSE Max(row.score, rest.max),
                        top |-> row.id,
                        trend_type |-> IF rest.count = 0 THEN RowTrendType(key, row)
                                       ELSE rest.trend_type] :
                  rest \in {Aggregate(key, Tail(rows))} } : TRUE

\* SELECT id ... FROM trends WHERE trend_key = ?: the rowid, 0 for no row
FindTrend(trends, key) ==
    IF \E i \in DOMAIN trends : trends[i].trend_key = key
    THEN CHOOSE i \in DOMAIN trends :
            /\ trends[i].trend_key = key
            /\ \A j \in DOMAIN trends : trends[j].trend_key = key => i <= j
    ELSE 0

\* lines 147-154: count > old_count * 1.5, count > old_count, count < old_count
Momentum(count, old_count) ==
    IF 2 * count > 3 * old_count THEN "spike"
    ELSE IF count > old_count THEN "rising"
    ELSE IF count < old_count THEN "declining"
    ELSE "stable"

\* round(((count - old_count) / max(old_count, 1)) * 100, 1)
ChangePct(count, old_count) == RoundDiv((count - old_count) * 1000, Max(old_count, 1))

\* An UPDATE that stores this call's count: occurrence_count = ?.  C19 does
\* not hold of it.
OccurrenceUpdate_Replace(occurrence_count, count) == count

\* occurrence_count = occurrence_count + ?
OccurrenceUpdate(occurrence_count, count) == occurrence_count + count

\* max_score = MAX(max_score, ?)
MaxScoreUpdate(max_score, new) == Max(max_score, new)

\* the columns trend_snapshots is unique on
SnapshotConflict(a, b) ==
    /\ a.trend_id = b.trend_id
    /\ a.week_number = b.week_number
    /\ a.year = b.year

RECURSIVE WithoutConflict(_, _)
WithoutConflict(snapshots, row) ==
    IF snapshots = <<>> THEN <<>>
    ELSE (IF SnapshotConflict(Head(snapshots), row) THEN <<>> ELSE <<Head(snapshots)>>)
         \o WithoutConflict(Tail(snapshots), row)

\* A plain INSERT INTO trend_snapshots: C20 does not hold of it.
InsertOrReplaceSnapshot_Insert(snapshots, row) == Append(snapshots, row)

\* INSERT OR REPLACE INTO trend_snapshots: the rows the new one conflicts with
\* are deleted
InsertOrReplaceSnapshot(snapshots, row) == Append(WithoutConflict(snapshots, row), row)

\* A list that takes only the trends that rose: C21 does not hold of it.
IsNotable_RisenOnly(momentum) == momentum \in {"spike", "rising"}

\* the trends that are appended to notable: an existing one that is a spike or
\* rising (line 166), and every new one (line 184)
IsNotable(momentum) == momentum \in {"spike", "rising", "new"}

\* one round of the loop of lines 126-198; st holds the tables, notable and
\* trends_updated
UpsertTrend(key, rows, now, st) ==
    CHOOSE out \in {
        LET agg == Aggregate(key, rows)
            avg_score == RoundDiv(agg.sum, agg.count)
            existing == FindTrend(s.trends, key)
            old_count == s.trends[existing].occurrence_count
            momentum == IF existing # 0 THEN Momentum(agg.count, old_count) ELSE "new"
            change == IF existing # 0 THEN ChangePct(agg.count, old_count) ELSE 0
            trend_id == IF existing # 0 THEN existing ELSE Len(s.trends) + 1
            trends ==
                IF existing # 0
                THEN [s.trends EXCEPT ![existing] =
                        [@ EXCEPT !.last_seen = now,
                                  !.occurrence_count = OccurrenceUpdate(@, agg.count),
                                  !.week_over_week_change = change,
                                  !.avg_score = avg_score,
                                  !.max_score = MaxScoreUpdate(@, agg.max),
                                  !.momentum = momentum]]
                ELSE Append(s.trends,
                        [trend_key |-> key, trend_type |-> agg.trend_type,
                         first_seen |-> now, last_seen |-> now,
                         occurrence_count |-> agg.count, week_over_week_change |-> 0,
                         avg_score |-> avg_score, max_score |-> agg.max,
                         momentum |-> "new"])
            snapshot ==
                [trend_id |-> trend_id,
                 week_number |-> _get_current_week(now).week,
                 year |-> _get_current_week(now).year,
                 signal_count |-> agg.count, avg_score |-> avg_score,
                 top_signal_id |-> agg.top]
        IN  [trends |-> trends,
             snapshots |-> InsertOrReplaceSnapshot(s.snapshots, snapshot),
             notable |-> IF IsNotable(momentum)
                         THEN Append(s.notable,
                                [trend |-> key, momentum |-> momentum, count |-> agg.count,
                                 change_pct |-> change])
                         ELSE s.notable,
             trends_updated |-> s.trends_updated + 1] :
        s \in {st} } : TRUE

\* the loop over aggregations.items(); the order of the keys decides only
\* the rowids of new trends and the order of notable
RECURSIVE UpsertAll(_, _, _, _)
UpsertAll(keys, rows, now, st) ==
    IF keys = {} THEN st
    ELSE CHOOSE out \in
            { UpsertAll(keys \ {key}, rows, now, UpsertTrend(key, rows, now, st)) :
              key \in {CHOOSE k \in keys : TRUE} } : TRUE

\* update_trends(conn) on a database: the tables after it and what it returns
update_trends(status, analysis, bus, now, trends, snapshots) ==
    LET st == [trends |-> trends, snapshots |-> snapshots, notable |-> <<>>,
               trends_updated |-> 0]
    IN  CHOOSE out \in { IF rows = <<>> THEN st ELSE UpsertAll(AggKeys(rows), rows, now, st) :
                            rows \in {ScoredRows(NumSignals, status, analysis, bus)} } : TRUE

NoTrendResult == [trends_updated |-> 0, notable |-> <<>>]

\* history of the calls: the latest call, and the count each key had in the
\* call before
NoTrendHist ==
    [calls |-> 0,        \* update_trends calls made
     at |-> 0,           \* trNow of the latest call
     touched |-> {},     \* keys the latest call aggregated
     counts |-> << >>,   \* by key: count of the latest call that aggregated it
     prev |-> << >>,     \* by touched key: its count before (-1: never aggregated)
     before |-> << >>,   \* by touched key: occurrence_count before (0: no record)
     aggregated |-> {},  \* signals the latest call aggregated
     fresh |-> {},       \* signals scored since the call before it
     pending |-> {}]     \* signals scored since the latest call

\* the history after a call on the current database
TrendHistAfter(h, rows, now, trends, fresh) ==
    LET keys == AggKeys(rows)
    IN  [calls |-> h.calls + 1,
         at |-> now,
         touched |-> keys,
         counts |-> [k \in keys \cup DOMAIN h.counts |->
                        IF k \in keys THEN Aggregate(k, rows).count ELSE h.counts[k]],
         prev |-> [k \in keys |-> IF k \in DOMAIN h.counts THEN h.counts[k] ELSE -1],
         before |-> [k \in keys |->
                        IF FindTrend(trends, k) # 0
                        THEN trends[FindTrend(trends, k)].occurrence_count ELSE 0],
         aggregated |-> { rows[i].id : i \in DOMAIN rows },
         fresh |-> fresh,
         pending |-> {}]

\* the tables and the history a first update_trends call leaves
TrendsAfterPrior(prior, status, analysis, bus) ==
    IF prior = {}
    THEN [trends |-> <<>>, snapshots |-> <<>>, result |-> NoTrendResult,
          hist |-> NoTrendHist]
    ELSE LET r == update_trends(status, analysis, bus, 1, <<>>, <<>>)
         IN  [trends |-> r.trends, snapshots |-> r.snapshots,
              result |-> [trends_updated |-> r.trends_updated, notable |-> r.notable],
              hist |-> TrendHistAfter(NoTrendHist,
                                      ScoredRows(NumSignals, status, analysis, bus),
                                      1, <<>>, prior)]

(***************************************************************************)
(* The database (src/db.py), the control object (pipeline.PipelineControl) *)
(* and the thread that executes pipeline.run_full_pipeline.                *)
(***************************************************************************)
VARIABLES
    dbStatus,     \* signals.status by signal ("absent": no row)
    dbAnalysis,   \* signal_analysis by signal (NoAnalysis: no row)
    dbBus,        \* signal_bus rows by signal: a set of [bu_id, relevance_score]
    dbRuns,       \* pipeline_runs, in insertion order
    connOpen,     \* the connection of run_full_pipeline is open
    connRowid,    \* sqlite3_last_insert_rowid of that connection
    ctlPaused,    \* PipelineControl._paused
    ctlCancelled, \* PipelineControl._cancelled
    ctlEvent,     \* PipelineControl._pause_event is set
    ctlStage,     \* PipelineControl._current_stage
    pPc,          \* where the pipeline thread is
    pExc,         \* the exception in flight: "", "PipelineCancelled" or a message
    pCollected,   \* collected
    pValidated,   \* validated
    pQueue,       \* new_signals (stage_validate) / validated_signals (stage_score)
    pIdx,         \* the index of the loop over pQueue (1-based)
    pBatch,       \* batch
    pResults,     \* results
    pK,           \* the index of the loop over zip(batch, results)
    pScored,      \* scored_signals: [id, composite_score]
    pDelivery,    \* delivery results
    pAvail,       \* client.available of the client stage_score created
    pReturn,      \* what run_full_pipeline gave back: NoReturn until it ends
    hist          \* history of the current run, for stating properties

dbVars == << dbStatus, dbAnalysis, dbBus, dbRuns, connOpen, connRowid >>
ctlVars == << ctlPaused, ctlCancelled, ctlEvent, ctlStage >>
pLocals ==
    << pCollected, pValidated, pQueue, pIdx, pBatch, pResults, pK, pScored,
       pDelivery, pAvail >>
pipeVars == << pPc, pExc, pLocals, pReturn, hist >>

vars ==
    << apiVars, procVars, extraVars, scorerVars, dbVars, ctlVars, pipeVars,
       trendVars >>

\* recipients.json: the status of each recipient
Recipients == << "active", "inactive", "active" >>

\* the messages of the exceptions a stage can raise
Messages == { "database is locked" }

NoReturn == [status |-> "", error |-> "", signals_scored |-> 0]

NewRun ==
    [status |-> "running", error_message |-> "", signals_collected |-> 0,
     signals_validated |-> 0, signals_scored |-> 0, finalized |-> 0]

\* history of one run: what happened, for the properties only
NoHist ==
    [cancelRaised |-> FALSE,   \* a check_point raised PipelineCancelled
     cancelIssued |-> FALSE,   \* cancel() was called during the run
     fault |-> "",             \* the message of the exception a stage raised
     validated |-> {},         \* signals set to validated by this run
     wrote |-> [id \in SignalIds |-> {}],  \* commits of the score stage by signal
     batchesDone |-> {},       \* signals of the batches persisted completely
     remoteDown |-> TRUE,      \* every backend request met a rate-limit or API error
     remoteCalled |-> FALSE,   \* client.analyze was called
     reached |-> {},           \* stages entered
     sinceCheck |-> <<>>,      \* stages entered, batches scored and digests sent
                               \* since the last check_point() that returned
     scoreReturned |-> FALSE,  \* stage_score has returned
     gave |-> [id \in SignalIds |-> NoAnalysis]]  \* what the scorer returned

\* What earlier runs can have left: nothing, or signal 1 collected, scored
\* without a backend and kept by a completed run.
PriorSignals == { {}, {1} }

PriorRun ==
    [status |-> "completed", error_message |-> "", signals_collected |-> 1,
     signals_validated |-> 1, signals_scored |-> 1, finalized |-> 1]

\* the thread, the connection and the control object before a run
PipelineIdle ==
    /\ trNow = 1
    /\ connOpen = FALSE
    /\ connRowid = 0
    /\ ctlPaused = FALSE
    /\ ctlCancelled = FALSE
    /\ ctlEvent = TRUE
    /\ ctlStage = ""
    /\ pPc = "idle"
    /\ pExc = ""
    /\ pCollected = 0
    /\ pValidated = 0
    /\ pQueue = <<>>
    /\ pIdx = 1
    /\ pBatch = <<>>
    /\ pResults = <<>>
    /\ pK = 1
    /\ pScored = <<>>
    /\ pDelivery = <<>>
    /\ pAvail = FALSE
    /\ pReturn = NoReturn
    /\ hist = NoHist

PipelineInit ==
    /\ \E prior \in PriorSignals :
         /\ dbStatus = [id \in SignalIds |-> IF id \in prior THEN "scored" ELSE "absent"]
         /\ dbAnalysis = [id \in SignalIds |->
                            IF id \in prior THEN score_signal_heuristic(Signal(id))
                            ELSE NoAnalysis]
         /\ dbBus = [id \in SignalIds |->
                       IF id \in prior
                       THEN Range(score_signal_heuristic(Signal(id)).bu_matches)
                       ELSE {}]
         /\ dbRuns = IF prior = {} THEN <<>> ELSE <<PriorRun>>
         /\ LET t == TrendsAfterPrior(prior, dbStatus, dbAnalysis, dbBus)
            IN  /\ trTrends = t.trends
                /\ trSnapshots = t.snapshots
                /\ trResult = t.result
                /\ trHist = t.hist
    /\ PipelineIdle

(***************************************************************************)
(* PipelineControl                                                         *)
(***************************************************************************)
pause ==
    /\ ctlPaused' = TRUE
    /\ ctlEvent' = FALSE
    /\ UNCHANGED << ctlCancelled, ctlStage >>

resume ==
    /\ ctlPaused' = FALSE
    /\ ctlEvent' = TRUE
    /\ UNCHANGED << ctlCancelled, ctlStage >>

cancel ==
    /\ ctlCancelled' = TRUE
    /\ ctlEvent' = TRUE
    /\ UNCHANGED << ctlPaused, ctlStage >>

\* reset(), as the first statements of run_full_pipeline
ControlReset ==
    /\ ctlPaused' = FALSE
    /\ ctlCancelled' = FALSE
    /\ ctlEvent' = TRUE

\* A check_point() without the wait on the event: it never blocks.  C12 does
\* not hold of it.
CheckPointOpen_NoWait == TRUE

\* check_point() can return or raise only while the event is set
CheckPointOpen == ctlEvent
CheckPointRaises == ctlCancelled

(***************************************************************************)
(* db.py                                                                   *)
(***************************************************************************)
\* the signals with a status, in the order get_signals_by_status lists them
\* (collected_at descending; the model lists later ids first)
RECURSIVE IdsDescending(_, _)
IdsDescending(n, Keep) ==
    IF n = 0 THEN <<>>
    ELSE (IF n \in Keep THEN <<n>> ELSE <<>>) \o IdsDescending(n - 1, Keep)

RECURSIVE IdsAscending(_, _)
IdsAscending(n, Keep) ==
    IF n = 0 THEN <<>>
    ELSE IdsAscending(n - 1, Keep) \o (IF n \in Keep THEN <<n>> ELSE <<>>)

\* A query without its WHERE clause, which lists every signal: C26 does not
\* hold of it.
get_signals_by_status_Any(status) ==
    IdsDescending(NumSignals, { id \in SignalIds : dbStatus[id] # "absent" })

get_signals_by_status(status) ==
    IdsDescending(NumSignals, { id \in SignalIds : dbStatus[id] = status })

\* save_signal_bus: INSERT OR IGNORE of each match into the rows of a signal
RECURSIVE InsertOrIgnoreBus(_, _)
InsertOrIgnoreBus(rows, matches) ==
    IF matches = <<>> THEN rows
    ELSE InsertOrIgnoreBus(
            IF \E r \in rows : r.bu_id = Head(matches).bu_id THEN rows
            ELSE rows \cup {Head(matches)},
            Tail(matches))

\* complete_pipeline_run: the UPDATE of the row of run_id
CompletedRun(run, status, fields) ==
    [ [k \in DOMAIN run |-> IF k \in DOMAIN fields THEN fields[k] ELSE run[k]]
        EXCEPT !.status = status, !.finalized = run.finalized + 1 ]

complete_pipeline_run(status, fields) ==
    dbRuns' = [dbRuns EXCEPT ![Len(dbRuns)] = CompletedRun(dbRuns[Len(dbRuns)], status, fields)]

(***************************************************************************)
(* pipeline.run_full_pipeline and its stages.                              *)
(***************************************************************************)
Running == pPc \notin {"idle", "done"}

\* an exception leaves the try block
Throw(exc) ==
    /\ pExc' = exc
    /\ pPc' = "except"

\* a stage raises an exception of its own
Fault(msg) ==
    /\ Throw(msg)
    /\ hist' = [hist EXCEPT !.fault = msg]

\* history: a check_point() has returned; an operation has begun
Checked(h) == [h EXCEPT !.sinceCheck = <<>>]
Did(h, op) == [h EXCEPT !.sinceCheck = Append(@, op)]
Entered(h, stage) == Did([h EXCEPT !.reached = @ \cup {stage}], stage)

\* pipeline_control.check_point(), then on to pc next
CheckPoint(next) ==
    /\ CheckPointOpen
    /\ IF CheckPointRaises
       THEN /\ Throw("PipelineCancelled")
            /\ hist' = [hist EXCEPT !.cancelRaised = TRUE]
       ELSE /\ pPc' = next
            /\ hist' = Checked(hist)
            /\ UNCHANGED pExc

\* lines 360-364: setup_logging, pipeline_control.reset(), get_connection()
PStart ==
    /\ pPc = "idle"
    /\ ControlReset
    /\ connOpen' = TRUE
    /\ connRowid' = 0
    /\ pPc' = "init_db"
    /\ pExc' = ""
    /\ pCollected' = 0
    /\ pValidated' = 0
    /\ pQueue' = <<>>
    /\ pIdx' = 1
    /\ pBatch' = <<>>
    /\ pResults' = <<>>
    /\ pK' = 1
    /\ pScored' = <<>>
    /\ pDelivery' = <<>>
    /\ pAvail' = FALSE
    /\ pReturn' = NoReturn
    /\ hist' = NoHist
    /\ UNCHANGED << apiVars, procVars, extraVars, trendVars, scorerVars, dbStatus, dbAnalysis, dbBus, dbRuns, ctlStage >>

\* an exception before the try block leaves run_full_pipeline as it is
Escapes(msg) ==
    /\ pPc' = "done"
    /\ pReturn' = [status |-> "raised", error |-> msg, signals_scored |-> 0]

\* line 365: init_db()
PInitDb ==
    /\ pPc = "init_db"
    /\ \/ pPc' = "insert_run" /\ UNCHANGED pReturn
       \/ \E msg \in Messages : Escapes(msg)
    /\ UNCHANGED << apiVars, procVars, extraVars, trendVars, scorerVars, dbVars, ctlVars, pExc, pLocals, hist >>

\* line 367: run_id = insert_pipeline_run(conn, "full")
PInsertRun ==
    /\ pPc = "insert_run"
    /\ \/ /\ dbRuns' = Append(dbRuns, NewRun)
          /\ connRowid' = Len(dbRuns) + 1
          /\ pPc' = "collect"
          /\ UNCHANGED pReturn
       \/ /\ \E msg \in Messages : Escapes(msg)
          /\ UNCHANGED << dbRuns, connRowid >>
    /\ UNCHANGED << apiVars, procVars, extraVars, trendVars, scorerVars, dbStatus, dbAnalysis, dbBus, connOpen, ctlVars,
                    pExc, pLocals, hist >>

\* stage_collect up to its check_point: collect_all_rss()
PCollectRss ==
    /\ pPc = "collect"
    /\ ctlStage' = "collection"
    /\ \/ /\ pPc' = "collect_cp"
          /\ hist' = Entered(hist, "collection")
          /\ UNCHANGED pExc
       \/ \E msg \in Messages : Fault(msg)
    /\ UNCHANGED << apiVars, procVars, extraVars, trendVars, scorerVars, dbVars, ctlPaused, ctlCancelled, ctlEvent, pLocals,
                    pReturn >>

PCollectCheck ==
    /\ pPc = "collect_cp"
    /\ CheckPoint("collect_insert")
    /\ UNCHANGED << apiVars, procVars, extraVars, trendVars, scorerVars, dbVars, ctlVars, pLocals, pReturn >>

\* db.insert_signal for each collected signal, and the reset of the rows that
\* were there already: cursor.lastrowid is the rowid of the last row the
\* connection inserted, whether or not this INSERT OR IGNORE inserted one
RECURSIVE InsertSignals(_, _, _)
InsertSignals(feed, status, rowid) ==
    IF feed = <<>> THEN [status |-> status, rowid |-> rowid]
    ELSE LET id == Head(feed)
             inserted == status[id] = "absent"
             row_id == IF inserted
                       THEN Cardinality({ x \in SignalIds : status[x] # "absent" }) + 1
                       ELSE rowid
             after == IF inserted \/ row_id = 0
                      THEN [status EXCEPT ![id] = "new"] ELSE status
         IN  InsertSignals(Tail(feed), after, row_id)

\* the rest of stage_collect: collect_all_scraped() and the loop of inserts
PCollectInsert ==
    /\ pPc = "collect_insert"
    /\ \/ \E feed \in SUBSET SignalIds :
            LET all_signals == IdsAscending(NumSignals, feed)
                after == InsertSignals(all_signals, dbStatus, connRowid)
            IN  /\ dbStatus' = after.status
                /\ connRowid' = after.rowid
                /\ pCollected' = Len(all_signals)
                /\ pPc' = "cp1"
                /\ UNCHANGED << pExc, hist >>
       \/ /\ \E msg \in Messages : Fault(msg)
          /\ UNCHANGED << dbStatus, connRowid, pCollected >>
    /\ UNCHANGED << apiVars, procVars, extraVars, trendVars, scorerVars, dbAnalysis, dbBus, dbRuns, connOpen, ctlVars,
                    pValidated, pQueue, pIdx, pBatch, pResults, pK, pScored,
                    pDelivery, pAvail, pReturn >>

\* line 372
PCheck1 ==
    /\ pPc = "cp1"
    /\ CheckPoint("validate")
    /\ UNCHANGED << apiVars, procVars, extraVars, trendVars, scorerVars, dbVars, ctlVars, pLocals, pReturn >>

\* stage_validate lines 182-186
PValidateStart ==
    /\ pPc = "validate"
    /\ ctlStage' = "validation"
    /\ hist' = Entered(hist, "validation")
    /\ pQueue' = get_signals_by_status("new")
    /\ pIdx' = 1
    /\ pValidated' = 0
    /\ pPc' = "validate_loop"
    /\ UNCHANGED << apiVars, procVars, extraVars, trendVars, scorerVars, dbVars, ctlPaused, ctlCancelled, ctlEvent, pExc,
                    pCollected, pBatch, pResults, pK, pScored, pDelivery, pAvail,
                    pReturn >>

\* one round of the loop of stage_validate: check_point, validate_signal,
\* update_signal_status
PValidateOne ==
    /\ pPc = "validate_loop"
    /\ pIdx <= Len(pQueue)
    /\ CheckPointOpen
    /\ IF CheckPointRaises
       THEN /\ Throw("PipelineCancelled")
            /\ hist' = [hist EXCEPT !.cancelRaised = TRUE]
            /\ UNCHANGED << dbStatus, pIdx, pValidated >>
       ELSE \/ /\ dbStatus' = [dbStatus EXCEPT ![pQueue[pIdx]] = "validated"]
               /\ pIdx' = pIdx + 1
               /\ pValidated' = pValidated + 1
               /\ hist' = [Checked(hist) EXCEPT !.validated = @ \cup {pQueue[pIdx]}]
               /\ UNCHANGED << pPc, pExc >>
            \/ /\ \E msg \in Messages : Fault(msg)
               /\ UNCHANGED << dbStatus, pIdx, pValidated >>
    /\ UNCHANGED << apiVars, procVars, extraVars, trendVars, scorerVars, dbAnalysis, dbBus, dbRuns, connOpen, connRowid,
                    ctlVars, pCollected, pQueue, pBatch, pResults, pK, pScored,
                    pDelivery, pAvail, pReturn >>

\* stage_validate returns
PValidateEnd ==
    /\ pPc = "validate_loop"
    /\ pIdx > Len(pQueue)
    /\ pPc' = "cp2"
    /\ UNCHANGED << apiVars, procVars, extraVars, trendVars, scorerVars, dbVars, ctlVars, pExc, pLocals, pReturn, hist >>

\* line 376
PCheck2 ==
    /\ pPc = "cp2"
    /\ CheckPoint("score")
    /\ UNCHANGED << apiVars, procVars, extraVars, trendVars, scorerVars, dbVars, ctlVars, pLocals, pReturn >>

\* stage_score lines 204-222
\* A score stage that takes the signals this run has validated only: C39
\* does not hold of it.
ScoreQueue_ThisRun == IdsDescending(NumSignals, hist.validated)

\* validated_signals = get_signals_by_status(conn, "validated")
ScoreQueue == get_signals_by_status("validated")

PScoreStart ==
    /\ pPc = "score"
    /\ ctlStage' = "scoring"
    /\ hist' = [Entered(hist, "scoring") EXCEPT !.scoreReturned = (ScoreQueue = <<>>)]
    /\ pQueue' = ScoreQueue
    /\ pIdx' = 1
    /\ pScored' = <<>>
    /\ IF pQueue' = <<>>
       THEN pPc' = "cp3" /\ UNCHANGED pAvail
       ELSE pPc' = "score_batch" /\ pAvail' \in BOOLEAN
    /\ UNCHANGED << apiVars, procVars, extraVars, trendVars, scorerVars, dbVars, ctlPaused, ctlCancelled, ctlEvent, pExc,
                    pCollected, pValidated, pBatch, pResults, pK, pDelivery,
                    pReturn >>

\* validated_signals[i:i + AI_BATCH_SIZE]
BatchAt(queue, i) == SubSeq(queue, i, Min(i + AI_BATCH_SIZE - 1, Len(queue)))

\* lines 226-234: check_point, then the batch goes to score_batch_ai or to
\* score_signal one by one
PScoreBatch ==
    /\ pPc = "score_batch"
    /\ pIdx <= Len(pQueue)
    /\ scPc = "idle"
    /\ CheckPointOpen
    /\ IF CheckPointRaises
       THEN /\ Throw("PipelineCancelled")
            /\ hist' = [hist EXCEPT !.cancelRaised = TRUE]
            /\ UNCHANGED << apiVars, procVars, extraVars, trendVars, scorerVars, pBatch >>
       ELSE /\ pBatch' = BatchAt(pQueue, pIdx)
            /\ ScBegin(IF pAvail /\ Len(pBatch') > 1 THEN "score_batch_ai" ELSE "score_each",
                       pBatch', pAvail)
            /\ pPc' = "scoring"
            /\ hist' = Did(Checked(hist), "batch")
            /\ UNCHANGED pExc
    /\ UNCHANGED << apiVars, procVars, extraVars, trendVars, dbVars, ctlVars, pCollected, pValidated, pQueue, pIdx, pResults,
                    pK, pScored, pDelivery, pAvail, pReturn >>

\* the scoring call comes back to stage_score: its results, or its exception
PScoreResults ==
    /\ pPc = "scoring"
    /\ scPc = "done"
    /\ ScReset
    /\ hist' = [hist EXCEPT
                  !.fault = IF scExc # "" THEN scExc ELSE @,
                  !.remoteDown = @ /\ scDown,
                  !.remoteCalled = @ \/ \E c \in Range(scCalls) : c.fn = "analyze",
                  !.gave = [id \in SignalIds |->
                              IF scExc = "" /\ \E k \in DOMAIN scResults : pBatch[k] = id
                              THEN scResults[CHOOSE k \in DOMAIN scResults : pBatch[k] = id]
                              ELSE @[id]]]
    /\ IF scExc # ""
       THEN /\ Throw(scExc)
            /\ UNCHANGED << pResults, pK >>
       ELSE /\ pResults' = scResults
            /\ pK' = 1
            /\ pPc' = "persist_analysis"
            /\ UNCHANGED pExc
    /\ UNCHANGED << apiVars, procVars, extraVars, trendVars, dbVars, ctlVars, pCollected, pValidated, pQueue, pIdx, pBatch,
                    pScored, pDelivery, pAvail, pReturn >>

\* the rounds zip(batch, results) has
PersistRounds == Min(Len(pBatch), Len(pResults))

\* line 241: insert_analysis (INSERT OR REPLACE, commit)
PPersistAnalysis ==
    /\ pPc = "persist_analysis"
    /\ pK <= PersistRounds
    /\ \/ /\ dbAnalysis' = [dbAnalysis EXCEPT ![pBatch[pK]] = pResults[pK]]
          /\ connRowid' = pBatch[pK]
          /\ hist' = [hist EXCEPT !.wrote[pBatch[pK]] = @ \cup {"analysis"}]
          /\ pPc' = "persist_bus"
          /\ UNCHANGED pExc
       \/ /\ \E msg \in Messages : Fault(msg)
          /\ UNCHANGED << dbAnalysis, connRowid >>
    /\ UNCHANGED << apiVars, procVars, extraVars, trendVars, scorerVars, dbStatus, dbBus, dbRuns, connOpen, ctlVars, pLocals,
                    pReturn >>

\* A persist loop with a check_point() between insert_analysis and
\* save_signal_bus: a cancellation can split the writes of one signal.  C9
\* does not hold of it.
PPersistBus_CheckPointFirst ==
    /\ pPc = "persist_bus"
    /\ CheckPointOpen
    /\ IF CheckPointRaises
       THEN /\ Throw("PipelineCancelled")
            /\ hist' = [hist EXCEPT !.cancelRaised = TRUE]
            /\ UNCHANGED dbBus
       ELSE /\ dbBus' = [dbBus EXCEPT ![pBatch[pK]] =
                            InsertOrIgnoreBus(@, pResults[pK].bu_matches)]
            /\ hist' = [hist EXCEPT !.wrote[pBatch[pK]] = @ \cup {"bus"}]
            /\ pPc' = "persist_status"
            /\ UNCHANGED pExc
    /\ UNCHANGED << apiVars, procVars, extraVars, trendVars, scorerVars, dbStatus, dbAnalysis, dbRuns, connOpen,
                    connRowid, ctlVars, pLocals, pReturn >>

\* line 242: save_signal_bus (INSERT OR IGNORE per match, commit)
PPersistBus ==
    /\ pPc = "persist_bus"
    /\ \/ /\ dbBus' = [dbBus EXCEPT ![pBatch[pK]] =
                          InsertOrIgnoreBus(@, pResults[pK].bu_matches)]
          /\ hist' = [hist EXCEPT !.wrote[pBatch[pK]] = @ \cup {"bus"}]
          /\ pPc' = "persist_status"
          /\ UNCHANGED pExc
       \/ /\ \E msg \in Messages : Fault(msg)
          /\ UNCHANGED dbBus
    /\ UNCHANGED << apiVars, procVars, extraVars, trendVars, scorerVars, dbStatus, dbAnalysis, dbRuns, connOpen, connRowid,
                    ctlVars, pLocals, pReturn >>

\* thresholds.include_in_digest
min_score == MIN_SCORE_DEFAULT

\* A persist loop that tests the threshold first and leaves a signal below it
\* as it was ("validated"): C15 does not hold of it.
PPersistStatus_ThresholdFirst ==
    /\ pPc = "persist_status"
    /\ IF pResults[pK].composite >= min_score
       THEN /\ dbStatus' = [dbStatus EXCEPT ![pBatch[pK]] = "scored"]
            /\ pScored' = Append(pScored, [id |-> pBatch[pK],
                                           composite_score |-> pResults[pK].composite])
       ELSE UNCHANGED << dbStatus, pScored >>
    /\ hist' = [hist EXCEPT !.wrote[pBatch[pK]] = @ \cup {"status"}]
    /\ pK' = pK + 1
    /\ pPc' = "persist_analysis"
    /\ UNCHANGED << apiVars, procVars, extraVars, trendVars, scorerVars, dbAnalysis, dbBus, dbRuns, connOpen, connRowid,
                    ctlVars, pExc, pCollected, pValidated, pQueue, pIdx, pBatch, pResults,
                    pDelivery, pAvail, pReturn >>

\* lines 243-247: update_signal_status, then the threshold
PPersistStatus ==
    /\ pPc = "persist_status"
    /\ \/ /\ dbStatus' = [dbStatus EXCEPT ![pBatch[pK]] = "scored"]
          /\ hist' = [hist EXCEPT !.wrote[pBatch[pK]] = @ \cup {"status"}]
          /\ pScored' = IF pResults[pK].composite >= min_score
                        THEN Append(pScored, [id |-> pBatch[pK],
                                              composite_score |-> pResults[pK].composite])
                        ELSE pScored
          /\ pK' = pK + 1
          /\ pPc' = "persist_analysis"
          /\ UNCHANGED pExc
       \/ /\ \E msg \in Messages : Fault(msg)
          /\ UNCHANGED << dbStatus, pScored, pK >>
    /\ UNCHANGED << apiVars, procVars, extraVars, trendVars, scorerVars, dbAnalysis, dbBus, dbRuns, connOpen, connRowid,
                    ctlVars, pCollected, pValidated, pQueue, pIdx, pBatch, pResults,
                    pDelivery, pAvail, pReturn >>

\* the loop over zip(batch, results) ends: on to the next batch
PBatchDone ==
    /\ pPc = "persist_analysis"
    /\ pK > PersistRounds
    /\ pIdx' = pIdx + AI_BATCH_SIZE
    /\ hist' = [hist EXCEPT !.batchesDone = @ \cup Range(pBatch)]
    /\ pPc' = "score_batch"
    /\ UNCHANGED << apiVars, procVars, extraVars, trendVars, scorerVars, dbVars, ctlVars, pExc, pCollected, pValidated,
                    pQueue, pBatch, pResults, pK, pScored, pDelivery, pAvail,
                    pReturn >>

\* scored_signals.sort(key=composite_score, reverse=True): stable
RECURSIVE InsertScored(_, _)
InsertScored(x, s) ==
    IF s = <<>> THEN <<x>>
    ELSE IF Head(s).composite_score >= x.composite_score
         THEN <<Head(s)>> \o InsertScored(x, Tail(s))
         ELSE <<x>> \o s

RECURSIVE SortScored(_)
SortScored(s) ==
    IF s = <<>> THEN <<>>
    ELSE InsertScored(s[Len(s)], SortScored(SubSeq(s, 1, Len(s) - 1)))

\* A cap that keeps the end of the sorted list, scored_signals[-max_signals:]:
\* C16 does not hold of it.
CapScored_Tail(s) == SubSeq(s, Max(1, Len(s) - MAX_SIGNALS_PER_DIGEST + 1), Len(s))

\* scored_signals[:max_signals]
CapScored(s) == SubSeq(s, 1, Min(Len(s), MAX_SIGNALS_PER_DIGEST))

\* lines 254-271: the loop over the batches is over; sort, cap, return
PScoreEnd ==
    /\ pPc = "score_batch"
    /\ pIdx > Len(pQueue)
    /\ pScored' = CapScored(SortScored(pScored))
    /\ pPc' = "cp3"
    /\ hist' = [hist EXCEPT !.scoreReturned = TRUE]
    /\ UNCHANGED << apiVars, procVars, extraVars, trendVars, scorerVars, dbVars, ctlVars, pExc, pCollected, pValidated,
                    pQueue, pIdx, pBatch, pResults, pK, pDelivery, pAvail, pReturn >>

\* line 380
PCheck3 ==
    /\ pPc = "cp3"
    /\ CheckPoint("branch")
    /\ UNCHANGED << apiVars, procVars, extraVars, trendVars, scorerVars, dbVars, ctlVars, pLocals, pReturn >>

\* lines 382-390: nothing for the digest; the run is completed at once
PNoSignals ==
    /\ pPc = "branch"
    /\ pScored = <<>>
    /\ \/ /\ complete_pipeline_run("completed",
                [signals_collected |-> pCollected, signals_validated |-> pValidated,
                 signals_scored |-> 0])
          /\ pReturn' = [status |-> "completed", error |-> "", signals_scored |-> 0]
          /\ pPc' = "finally"
          /\ UNCHANGED << pExc, hist >>
       \/ /\ \E msg \in Messages : Fault(msg)
          /\ UNCHANGED << dbRuns, pReturn >>
    /\ UNCHANGED << apiVars, procVars, extraVars, trendVars, scorerVars, dbStatus, dbAnalysis, dbBus, connOpen, connRowid,
                    ctlVars, pLocals >>

\* update_trends(conn) as a step; fresh: the signals scored since the call before
UpdateTrends(fresh) ==
    \E r \in {update_trends(dbStatus, dbAnalysis, dbBus, trNow, trTrends, trSnapshots)} :
    \E rows \in {ScoredRows(NumSignals, dbStatus, dbAnalysis, dbBus)} :
        /\ trTrends' = r.trends
        /\ trSnapshots' = r.snapshots
        /\ trResult' = [trends_updated |-> r.trends_updated, notable |-> r.notable]
        /\ trHist' = TrendHistAfter(trHist, rows, trNow, trTrends, fresh)
        /\ UNCHANGED trNow

\* A run that goes on to the trend update whatever stage_score returned: C14
\* does not hold of it.
PTrends_Unguarded ==
    /\ pPc = "branch"
    /\ ctlStage' = "trends"
    /\ pPc' = "cp4"
    /\ hist' = Entered(hist, "trends")
    /\ UpdateTrends({ id \in SignalIds : hist.wrote[id] = {"analysis", "bus", "status"} })
    /\ UNCHANGED << apiVars, procVars, extraVars, scorerVars, dbVars, ctlPaused, ctlCancelled, ctlEvent, pExc,
                    pLocals, pReturn >>

\* lines 393-396: update_trends(conn), or an exception of its first query
PTrends ==
    /\ pPc = "branch"
    /\ pScored # <<>>
    /\ ctlStage' = "trends"
    /\ \/ /\ \E msg \in Messages : Fault(msg)
          /\ UNCHANGED trendVars
       \/ /\ pPc' = "cp4"
          /\ hist' = Entered(hist, "trends")
          /\ UNCHANGED pExc
          /\ UpdateTrends({ id \in SignalIds : hist.wrote[id] = {"analysis", "bus", "status"} })
    /\ UNCHANGED << apiVars, procVars, extraVars, scorerVars, dbVars, ctlPaused, ctlCancelled, ctlEvent, pLocals,
                    pReturn >>

\* line 397
PCheck4 ==
    /\ pPc = "cp4"
    /\ CheckPoint("compose")
    /\ UNCHANGED << apiVars, procVars, extraVars, trendVars, scorerVars, dbVars, ctlVars, pLocals, pReturn >>

\* stage_compose
PCompose ==
    /\ pPc = "compose"
    /\ ctlStage' = "composition"
    /\ \/ /\ pPc' = "cp5"
          /\ hist' = Entered(hist, "composition")
          /\ UNCHANGED pExc
       \/ \E msg \in Messages : Fault(msg)
    /\ UNCHANGED << apiVars, procVars, extraVars, trendVars, scorerVars, dbVars, ctlPaused, ctlCancelled, ctlEvent, pLocals,
                    pReturn >>

\* line 401
PCheck5 ==
    /\ pPc = "cp5"
    /\ CheckPoint("deliver")
    /\ UNCHANGED << apiVars, procVars, extraVars, trendVars, scorerVars, dbVars, ctlVars, pLocals, pReturn >>

\* stage_deliver lines 327-331
PDeliverStart ==
    /\ pPc = "deliver"
    /\ ctlStage' = "delivery"
    /\ hist' = Entered(hist, "delivery")
    /\ pIdx' = 1
    /\ pDelivery' = <<>>
    /\ pPc' = "deliver_loop"
    /\ UNCHANGED << apiVars, procVars, extraVars, trendVars, scorerVars, dbVars, ctlPaused, ctlCancelled, ctlEvent, pExc,
                    pCollected, pValidated, pQueue, pBatch, pResults, pK, pScored,
                    pAvail, pReturn >>

\* A delivery loop without the check_point() of line 337: C13 does not hold
\* of it.
PDeliverOne_NoCheckPoint ==
    /\ pPc = "deliver_loop"
    /\ pIdx <= Len(Recipients)
    /\ IF Recipients[pIdx] # "active"
       THEN UNCHANGED << pDelivery, hist >>
       ELSE /\ \E status \in {"sent", "failed"} : pDelivery' = Append(pDelivery, status)
            /\ hist' = Did(hist, "send")
    /\ pIdx' = pIdx + 1
    /\ UNCHANGED << apiVars, procVars, extraVars, trendVars, scorerVars, dbVars, ctlVars, pPc, pExc, pCollected,
                    pValidated, pQueue, pBatch, pResults, pK, pScored, pAvail, pReturn >>

\* one round of the loop over the recipients: an inactive one is skipped; for
\* an active one check_point, then send_email, which reports its outcome
PDeliverOne ==
    /\ pPc = "deliver_loop"
    /\ pIdx <= Len(Recipients)
    /\ IF Recipients[pIdx] # "active"
       THEN /\ pIdx' = pIdx + 1
            /\ UNCHANGED << pPc, pExc, pDelivery, hist >>
       ELSE /\ CheckPointOpen
            /\ IF CheckPointRaises
               THEN /\ Throw("PipelineCancelled")
                    /\ hist' = [hist EXCEPT !.cancelRaised = TRUE]
                    /\ UNCHANGED << pIdx, pDelivery >>
               ELSE /\ \E status \in {"sent", "failed"} :
                         pDelivery' = Append(pDelivery, status)
                    /\ pIdx' = pIdx + 1
                    /\ hist' = Did(Checked(hist), "send")
                    /\ UNCHANGED << pPc, pExc >>
    /\ UNCHANGED << apiVars, procVars, extraVars, trendVars, scorerVars, dbVars, ctlVars, pCollected, pValidated, pQueue,
                    pBatch, pResults, pK, pScored, pAvail, pReturn >>

\* stage_deliver returns; lines 406-421
PCompleted ==
    /\ pPc = "deliver_loop"
    /\ pIdx > Len(Recipients)
    /\ \/ /\ complete_pipeline_run("completed",
                [signals_collected |-> pCollected, signals_validated |-> pValidated,
                 signals_scored |-> Len(pScored)])
          /\ pReturn' = [status |-> "completed", error |-> "",
                         signals_scored |-> Len(pScored)]
          /\ pPc' = "finally"
          /\ UNCHANGED << pExc, hist >>
       \/ /\ \E msg \in Messages : Fault(msg)
          /\ UNCHANGED << dbRuns, pReturn >>
    /\ UNCHANGED << apiVars, procVars, extraVars, trendVars, scorerVars, dbStatus, dbAnalysis, dbBus, connOpen, connRowid,
                    ctlVars, pLocals >>

\* Handlers in the other order, "except Exception" first: every exception,
\* the cancellation signal too, marks the run failed.  C3 does not hold of it.
HandlerStatus_ExceptionFirst(exc) == "failed"

\* the except clause that takes an exception: PipelineCancelled first, then
\* Exception
HandlerStatus(exc) == IF exc = "PipelineCancelled" THEN "cancelled" ELSE "failed"

\* A handler that records a fixed text instead of str(e): C10 does not hold
\* of it.
HandlerMessage_Fixed(exc) ==
    IF exc = "PipelineCancelled" THEN "Cancelled by user" ELSE "Pipeline failed"

\* error_message of the run and the message given back
HandlerMessage(exc) ==
    IF exc = "PipelineCancelled" THEN "Cancelled by user" ELSE exc

\* Handlers that give the status back without complete_pipeline_run: the run
\* stays "running".  C2 does not hold of it.
PExcept_NoFinalize ==
    /\ pPc = "except"
    /\ pReturn' = [status |-> HandlerStatus(pExc),
                   error |-> IF HandlerStatus(pExc) = "failed" THEN HandlerMessage(pExc)
                             ELSE "Pipeline cancelled by user",
                   signals_scored |-> 0]
    /\ pExc' = ""
    /\ pPc' = "finally"
    /\ UNCHANGED << apiVars, procVars, extraVars, trendVars, scorerVars, dbVars, ctlVars, pLocals, hist >>

\* lines 423-431; the UPDATE of the handler itself is taken to succeed
PExcept ==
    /\ pPc = "except"
    /\ complete_pipeline_run(HandlerStatus(pExc), [error_message |-> HandlerMessage(pExc)])
    /\ pReturn' = [status |-> HandlerStatus(pExc),
                   error |-> IF HandlerStatus(pExc) = "failed" THEN HandlerMessage(pExc)
                             ELSE "Pipeline cancelled by user",
                   signals_scored |-> 0]
    /\ pExc' = ""
    /\ pPc' = "finally"
    /\ UNCHANGED << apiVars, procVars, extraVars, trendVars, scorerVars, dbStatus, dbAnalysis, dbBus, connOpen, connRowid,
                    ctlVars, pLocals, hist >>

\* A finally clause that closes the connection only: C25 does not hold of it.
PFinally_KeepsStage ==
    /\ pPc = "finally"
    /\ connOpen' = FALSE
    /\ pPc' = "done"
    /\ UNCHANGED << apiVars, procVars, extraVars, trendVars, scorerVars, dbStatus, dbAnalysis, dbBus, dbRuns,
                    connRowid, ctlVars, pExc, pLocals, pReturn, hist >>

\* lines 433-435
PFinally ==
    /\ pPc = "finally"
    /\ ctlStage' = ""
    /\ connOpen' = FALSE
    /\ pPc' = "done"
    /\ UNCHANGED << apiVars, procVars, extraVars, trendVars, scorerVars, dbStatus, dbAnalysis, dbBus, dbRuns, connRowid,
                    ctlPaused, ctlCancelled, ctlEvent, pExc, pLocals, pReturn, hist >>

(***************************************************************************)
(* The controller: pause, resume and cancel while a run is in progress.    *)
(***************************************************************************)
Pause ==
    /\ Running
    /\ ~ctlPaused
    /\ pause
    /\ UNCHANGED << apiVars, procVars, extraVars, trendVars, scorerVars, dbVars, pipeVars >>

Resume ==
    /\ Running
    /\ ctlPaused
    /\ resume
    /\ UNCHANGED << apiVars, procVars, extraVars, trendVars, scorerVars, dbVars, pipeVars >>

Cancel ==
    /\ Running
    /\ ~ctlCancelled
    /\ cancel
    /\ hist' = [hist EXCEPT !.cancelIssued = TRUE]
    /\ UNCHANGED << apiVars, procVars, extraVars, trendVars, scorerVars, dbVars, pPc, pExc, pLocals, pReturn >>

\* what the backend does to the requests of a run: a few shapes of response,
\* every course of the retries
PipelineAttempts(id) == AttemptSeqs(FewResponses(id))
PipelineBatchAttempts(ids) ==
    AttemptSeqs(BatchResponses(ids, [id \in SignalIds |-> FewElements(id)]))

\* the steps of the scoring call stage_score waits for
PScoring ==
    /\ pPc = "scoring"
    /\ \/ ScBatchRequest(PipelineBatchAttempts(scSignals))
       \/ ScBatchElement(PipelineAttempts(NextSignal))
       \/ ScEach(PipelineAttempts(NextSignal))
    /\ UNCHANGED << apiVars, procVars, extraVars, trendVars, dbVars, ctlVars, pipeVars >>

(***************************************************************************)
(* The pipeline endpoints of the API server.                               *)
(***************************************************************************)
ApiInit ==
    /\ apiRunning = FALSE
    /\ apiLastResult = ""
    /\ reqPc = [r \in Requests |-> "idle"]
    /\ bgPc = [r \in Requests |-> "none"]

\* the threads that are executing the pipeline (inside the try block)
ActiveRuns == { r \in Requests : bgPc[r] = "running" }

\* run_pipeline line 386: the flag is read; 409 if it is set
ApiCheck(r) ==
    /\ reqPc[r] = "idle"
    /\ reqPc' = [reqPc EXCEPT ![r] = IF apiRunning THEN "rejected" ELSE "checked"]
    /\ UNCHANGED << apiRunning, apiLastResult, bgPc >>

\* run_pipeline lines 389-394: threading.Thread(target=_run_pipeline_bg).start()
ApiStart(r) ==
    /\ reqPc[r] = "checked"
    /\ reqPc' = [reqPc EXCEPT ![r] = "accepted"]
    /\ bgPc' = [bgPc EXCEPT ![r] = "spawned"]
    /\ UNCHANGED << apiRunning, apiLastResult >>

\* _run_pipeline_bg lines 355-358: the thread sets the flag
BgBegin(r) ==
    /\ bgPc[r] = "spawned"
    /\ apiRunning' = TRUE
    /\ bgPc' = [bgPc EXCEPT ![r] = "running"]
    /\ UNCHANGED << apiLastResult, reqPc >>

\* _run_pipeline_bg lines 359-368: the run, and what it gives back or raises
BgRun(r) ==
    /\ bgPc[r] = "running"
    /\ \E status \in {"completed", "failed", "cancelled"} : apiLastResult' = status
    /\ bgPc' = [bgPc EXCEPT ![r] = "ran"]
    /\ UNCHANGED << apiRunning, reqPc >>

\* _run_pipeline_bg lines 369-372: finally
BgFinally(r) ==
    /\ bgPc[r] = "ran"
    /\ apiRunning' = FALSE
    /\ bgPc' = [bgPc EXCEPT ![r] = "finished"]
    /\ UNCHANGED << apiLastResult, reqPc >>

ApiRequestCheck ==
    /\ \E r \in Requests : ApiCheck(r)
    /\ UNCHANGED << procVars, extraVars, scorerVars, dbVars, ctlVars, pipeVars, trendVars >>

ApiRequestStart ==
    /\ \E r \in Requests : ApiStart(r)
    /\ UNCHANGED << procVars, extraVars, scorerVars, dbVars, ctlVars, pipeVars, trendVars >>

ApiThreadBegin ==
    /\ \E r \in Requests : BgBegin(r)
    /\ UNCHANGED << procVars, extraVars, scorerVars, dbVars, ctlVars, pipeVars, trendVars >>

ApiThreadRun ==
    /\ \E r \in Requests : BgRun(r)
    /\ UNCHANGED << procVars, extraVars, scorerVars, dbVars, ctlVars, pipeVars, trendVars >>

ApiThreadFinally ==
    /\ \E r \in Requests : BgFinally(r)
    /\ UNCHANGED << procVars, extraVars, scorerVars, dbVars, ctlVars, pipeVars, trendVars >>

NextApi ==
    \/ ApiRequestCheck \/ ApiRequestStart
    \/ ApiThreadBegin \/ ApiThreadRun \/ ApiThreadFinally

(***************************************************************************)
(* The control requests of the API against a background thread that is     *)
(* starting its run.                                                        *)
(***************************************************************************)
\* the check_points of a run the model follows
RunCheckPoints == 2

ThreadsIdle ==
    /\ rcPc = [r \in Requests |-> "idle"]
    /\ rcChecks = [r \in Requests |-> 0]
    /\ rcAccepted = {}

OutsideControl ==
    UNCHANGED << procVars, clientVars, heurVars, mailVars, dbLeft, scorerVars,
                 dbVars, pipeVars, trendVars >>

\* POST /api/pipeline/run: server.py:386-394
ControlRunCheck ==
    /\ \E r \in Requests : ApiCheck(r)
    /\ UNCHANGED << raceVars, ctlVars >>
    /\ OutsideControl

ControlRunStart ==
    /\ \E r \in Requests : ApiStart(r)
    /\ UNCHANGED << raceVars, ctlVars >>
    /\ OutsideControl

\* _run_pipeline_bg sets the flag: server.py:355-358
ThreadBegins ==
    /\ \E r \in Requests :
         /\ BgBegin(r)
         /\ rcPc' = [rcPc EXCEPT ![r] = "reset"]
         /\ rcChecks' = [rcChecks EXCEPT ![r] = 0]
    /\ rcAccepted' = IF apiRunning THEN rcAccepted ELSE {}
    /\ UNCHANGED ctlVars
    /\ OutsideControl

\* run_full_pipeline calls pipeline_control.reset(): pipeline.py:360-361
ThreadResets ==
    /\ \E r \in Requests :
         /\ bgPc[r] = "running"
         /\ rcPc[r] = "reset"
         /\ rcPc' = [rcPc EXCEPT ![r] = "cp"]
    /\ ControlReset
    /\ rcAccepted' = IF rcAccepted = {} THEN {} ELSE rcAccepted \cup {"erased"}
    /\ UNCHANGED << apiVars, rcChecks, ctlStage >>
    /\ OutsideControl

\* a check_point() of the run returns, or raises PipelineCancelled, which
\* run_full_pipeline turns into the result "cancelled": pipeline.py:108-110
ThreadCheckPoint ==
    /\ \E r \in Requests :
         /\ bgPc[r] = "running"
         /\ rcPc[r] = "cp"
         /\ rcChecks[r] < RunCheckPoints
         /\ CheckPointOpen
         /\ IF CheckPointRaises
            THEN /\ rcPc' = [rcPc EXCEPT ![r] = "end"]
                 /\ bgPc' = [bgPc EXCEPT ![r] = "ran"]
                 /\ apiLastResult' = "cancelled"
                 /\ UNCHANGED rcChecks
            ELSE /\ rcChecks' = [rcChecks EXCEPT ![r] = rcChecks[r] + 1]
                 /\ UNCHANGED << rcPc, bgPc, apiLastResult >>
    /\ UNCHANGED << apiRunning, reqPc, rcAccepted, ctlVars >>
    /\ OutsideControl

\* the run returns after its last check_point, or a stage raises
ThreadEnds ==
    /\ \E r \in Requests :
         /\ bgPc[r] = "running"
         /\ rcPc[r] = "cp"
         /\ \/ rcChecks[r] = RunCheckPoints /\ apiLastResult' = "completed"
            \/ apiLastResult' = "failed"
         /\ rcPc' = [rcPc EXCEPT ![r] = "end"]
         /\ bgPc' = [bgPc EXCEPT ![r] = "ran"]
    /\ UNCHANGED << apiRunning, reqPc, rcChecks, rcAccepted, ctlVars >>
    /\ OutsideControl

\* finally: server.py:369-372
ThreadFinally ==
    /\ \E r \in Requests :
         /\ BgFinally(r)
         /\ rcPc' = [rcPc EXCEPT ![r] = "idle"]
    /\ rcAccepted' = {}
    /\ UNCHANGED << rcChecks, ctlVars >>
    /\ OutsideControl

\* POST /api/pipeline/pause: server.py:403-412
PauseRequest ==
    /\ apiRunning
    /\ pause
    /\ rcAccepted' = rcAccepted \cup {"pause"}
    /\ UNCHANGED << apiVars, rcPc, rcChecks >>
    /\ OutsideControl

\* POST /api/pipeline/resume: server.py:415-424
ResumeRequest ==
    /\ apiRunning
    /\ resume
    /\ rcAccepted' = rcAccepted \ {"pause"}
    /\ UNCHANGED << apiVars, rcPc, rcChecks >>
    /\ OutsideControl

\* POST /api/pipeline/cancel: server.py:427-435
CancelRequest ==
    /\ apiRunning
    /\ cancel
    /\ rcAccepted' = rcAccepted \cup {"cancel"}
    /\ UNCHANGED << apiVars, rcPc, rcChecks >>
    /\ OutsideControl

NextControl ==
    \/ ControlRunCheck \/ ControlRunStart
    \/ ThreadBegins \/ ThreadResets \/ ThreadCheckPoint \/ ThreadEnds \/ ThreadFinally
    \/ PauseRequest \/ ResumeRequest \/ CancelRequest

(***************************************************************************)
(* The scoring engine called directly.                                     *)
(***************************************************************************)
ScorerCall ==
    /\ ScCall
    /\ UNCHANGED << apiVars, procVars, extraVars, trendVars, dbVars, ctlVars, pipeVars >>

ScorerBatchRequest ==
    /\ ScBatchRequest(ScorerBatchAttempts(scSignals))
    /\ UNCHANGED << apiVars, procVars, extraVars, trendVars, dbVars, ctlVars, pipeVars >>

ScorerBatchElement ==
    /\ ScBatchElement(ScorerAttempts(NextSignal))
    /\ UNCHANGED << apiVars, procVars, extraVars, trendVars, dbVars, ctlVars, pipeVars >>

ScorerEach ==
    /\ ScEach(ScorerAttempts(NextSignal))
    /\ UNCHANGED << apiVars, procVars, extraVars, trendVars, dbVars, ctlVars, pipeVars >>

ScorerReturn ==
    /\ ScReturn
    /\ UNCHANGED << apiVars, procVars, extraVars, trendVars, dbVars, ctlVars, pipeVars >>

NextScorer ==
    \/ ScorerCall \/ ScorerBatchRequest \/ ScorerBatchElement
    \/ ScorerEach \/ ScorerReturn

(***************************************************************************)
(* Process startup and exit.  A run is the insert of its pipeline_runs row *)
(* and, if the process lives that long, its complete_pipeline_run.         *)
(***************************************************************************)
ProcInit ==
    /\ procKind = ""
    /\ procPc = "down"
    /\ procRun = 0
    /\ procStale = {}
    /\ procBoots = 0

\* python -m src.api.server, or python -m scripts.scheduler [--once]
ProcessStarts ==
    /\ procPc = "down"
    /\ procBoots < MaxBoots
    /\ \E kind \in {"server", "scheduler"} : procKind' = kind
    /\ procPc' = "startup"
    /\ procBoots' = procBoots + 1
    /\ UNCHANGED << procRun, procStale >>
    /\ UNCHANGED << apiVars, extraVars, scorerVars, dbVars, ctlVars, pipeVars, trendVars >>

\* UPDATE pipeline_runs SET status = 'failed' ... WHERE status = 'running'
MarkRunningFailed(runs) ==
    [i \in DOMAIN runs |->
        IF runs[i].status = "running" THEN [runs[i] EXCEPT !.status = "failed"]
        ELSE runs[i]]

\* server.py lines 68-81, the startup handler: the UPDATE, or an exception
\* of get_connection, init_db or the UPDATE, which is logged and dropped
_cleanup_stale_runs ==
    /\ procPc = "startup"
    /\ procKind = "server"
    /\ \/ dbRuns' = MarkRunningFailed(dbRuns)
       \/ UNCHANGED dbRuns
    /\ procPc' = "up"
    /\ UNCHANGED << procKind, procRun, procStale, procBoots >>
    /\ UNCHANGED << apiVars, extraVars, scorerVars, dbStatus, dbAnalysis, dbBus, connOpen, connRowid,
                    ctlVars, pipeVars, trendVars >>

\* scheduler.py main(): setup_logging(), then run_pipeline() or
\* start_scheduler(); nothing reads pipeline_runs
SchedulerMain ==
    /\ procPc = "startup"
    /\ procKind = "scheduler"
    /\ procPc' = "up"
    /\ UNCHANGED << procKind, procRun, procStale, procBoots >>
    /\ UNCHANGED << apiVars, extraVars, scorerVars, dbVars, ctlVars, pipeVars, trendVars >>

\* run_full_pipeline line 367 in the process: insert_pipeline_run
ProcRunInserts ==
    /\ procPc = "up"
    /\ procRun = 0
    /\ Len(dbRuns) < MaxRunRecords
    /\ dbRuns' = Append(dbRuns, NewRun)
    /\ procRun' = Len(dbRuns) + 1
    /\ UNCHANGED << procKind, procPc, procStale, procBoots >>
    /\ UNCHANGED << apiVars, extraVars, scorerVars, dbStatus, dbAnalysis, dbBus, connOpen, connRowid,
                    ctlVars, pipeVars, trendVars >>

\* the complete_pipeline_run of the run (lines 386, 414, 424, 431)
ProcRunCompletes ==
    /\ procPc = "up"
    /\ procRun # 0
    /\ \E status \in {"completed", "failed", "cancelled"} :
          dbRuns' = [dbRuns EXCEPT ![procRun] = CompletedRun(@, status, << >>)]
    /\ procRun' = 0
    /\ UNCHANGED << procKind, procPc, procStale, procBoots >>
    /\ UNCHANGED << apiVars, extraVars, scorerVars, dbStatus, dbAnalysis, dbBus, connOpen, connRowid,
                    ctlVars, pipeVars, trendVars >>

\* the process exits or is killed, at any point
ProcessExits ==
    /\ procPc # "down"
    /\ procKind' = ""
    /\ procPc' = "down"
    /\ procRun' = 0
    /\ procStale' = procStale \cup { i \in DOMAIN dbRuns : dbRuns[i].status = "running" }
    /\ UNCHANGED procBoots
    /\ UNCHANGED << apiVars, extraVars, scorerVars, dbVars, ctlVars, pipeVars, trendVars >>

NextStartup ==
    \/ ProcessStarts \/ _cleanup_stale_runs \/ SchedulerMain
    \/ ProcRunInserts \/ ProcRunCompletes \/ ProcessExits

(***************************************************************************)
(* The trend tracker over a sequence of runs: each run scores some         *)
(* signals, update_trends is called, the weeks go by.                      *)
(***************************************************************************)
\* the analysis a run gives a signal: how = "heuristic", or the validated
\* remote result ("good", or "wide": a low-scored one that names two units)
WideObject(id) ==
    RawDict("market-shift",
            BusList(<<BuEntry("kelk", Num(800)), BuEntry("vpg-force-sensors", Num(400))>>),
            LowScores, "remote", "remote", id)

RunAnalysis(id, how) ==
    score_signal(Signal(id), how # "heuristic",
                 IF how = "good" THEN GoodObject(id) ELSE WideObject(id)).val

\* the signals no run has scored yet
Unscored == { id \in SignalIds : dbStatus[id] # "scored" }

\* the score stage of a run (pipeline.py lines 236-243) for the signals the
\* run collected and validated: the next ones, none of them scored before
TrendsRunScores ==
    /\ \E last \in Unscored : \E how \in {"heuristic", "good", "wide"} :
          LET S == { id \in Unscored : id <= last }
          IN  /\ dbAnalysis' = [id \in SignalIds |->
                                  IF id \in S THEN RunAnalysis(id, how) ELSE dbAnalysis[id]]
              /\ dbBus' = [id \in SignalIds |->
                             IF id \in S
                             THEN InsertOrIgnoreBus(dbBus[id], RunAnalysis(id, how).bu_matches)
                             ELSE dbBus[id]]
              /\ dbStatus' = [id \in SignalIds |-> IF id \in S THEN "scored" ELSE dbStatus[id]]
              /\ trHist' = [trHist EXCEPT !.pending = @ \cup S]
    /\ UNCHANGED << apiVars, procVars, extraVars, scorerVars, dbRuns, connOpen, connRowid, ctlVars, pipeVars,
                    trTrends, trSnapshots, trNow, trResult >>

\* update_trends(conn)
TrendsUpdate ==
    /\ trHist.calls < MaxTrendCalls
    /\ UpdateTrends(trHist.pending)
    /\ UNCHANGED << apiVars, procVars, extraVars, scorerVars, dbVars, ctlVars, pipeVars >>

\* the next ISO week begins
TrendsNextWeek ==
    /\ trNow < Len(Calendar)
    /\ trNow' = trNow + 1
    /\ UNCHANGED << apiVars, procVars, extraVars, scorerVars, dbVars, ctlVars, pipeVars,
                    trTrends, trSnapshots, trResult, trHist >>

NextTrends == TrendsRunScores \/ TrendsUpdate \/ TrendsNextWeek

(***************************************************************************)
(* The client called directly: any backend, one call after the other.      *)
(***************************************************************************)
(***************************************************************************)
(* delivery/gmail.py: send_email, and the recipient loop of stage_deliver  *)
(***************************************************************************)
\* max_retries: int = 3
SEND_MAX_RETRIES == 3

DeliveryModes == {"mock", "smtp", "gmail", "sendgrid"}

\* What one call of send_mock, send_smtp or send_gmail meets: it returns
\* ("ok"), raises a RuntimeError ("auth": the sender or the authorisation is
\* not configured) or raises another exception ("err").  send_mock writes a
\* file and raises no RuntimeError.
Outcomes(mode) == IF mode = "mock" THEN {"ok", "err"} ELSE {"ok", "auth", "err"}

\* str(e) of the exception the k-th attempt raised
ErrMsg(k) == << "e1", "e2", "e3" >>[k]

DeliveryIdle ==
    /\ dlPc = "idle"
    /\ dlMode = "mock"
    /\ dlIdx = 1
    /\ dlResults = <<>>
    /\ dlExc = ""
    /\ seAttempt = 0
    /\ seTrace = <<>>
    /\ seSleeps = <<>>

\* A send_email that gives up at the first exception: C36 does not hold of it.
SendRetries_Never(attempt) == FALSE

\* if attempt < max_retries - 1
SendRetries(attempt) == attempt < SEND_MAX_RETRIES - 1

\* stage_deliver is entered: pipeline.py:326-330
DeliverBegins ==
    /\ dlPc = "idle"
    /\ \E mode \in DeliveryModes : dlMode' = mode
    /\ ctlStage' = "delivery"
    /\ dlPc' = "loop"
    /\ UNCHANGED << dlIdx, dlResults, dlExc, seAttempt, seTrace, seSleeps,
                    ctlPaused, ctlCancelled, ctlEvent >>

\* one pass of the recipient loop up to the call of send_email:
\* pipeline.py:332-339
DeliverNext ==
    /\ dlPc = "loop"
    /\ dlIdx <= Len(Recipients)
    /\ IF Recipients[dlIdx] # "active"
       THEN /\ dlIdx' = dlIdx + 1
            /\ UNCHANGED << dlPc, dlExc >>
       ELSE /\ CheckPointOpen
            /\ IF CheckPointRaises
               THEN /\ dlPc' = "raised"
                    /\ dlExc' = "PipelineCancelled"
               ELSE /\ dlPc' = "send"
                    /\ UNCHANGED dlExc
            /\ UNCHANGED dlIdx
    /\ seAttempt' = 0
    /\ seTrace' = <<>>
    /\ seSleeps' = <<>>
    /\ UNCHANGED << dlMode, dlResults, ctlVars >>

\* send_email returns result; stage_deliver appends it and goes on:
\* pipeline.py:346-347
SendReturns(status, mode, error, trace) ==
    /\ dlResults' = Append(dlResults,
                           [status |-> status, mode |-> mode, error |-> error,
                            recipient |-> dlIdx, trace |-> trace])
    /\ dlIdx' = dlIdx + 1
    /\ dlPc' = "loop"
    /\ UNCHANGED << dlExc, seAttempt, seSleeps >>

\* one pass of the loop of send_email: gmail.py:318-355
SendAttempt ==
    /\ dlPc = "send"
    /\ IF seAttempt >= SEND_MAX_RETRIES
       THEN /\ SendReturns("failed", dlMode, "", seTrace)
            /\ UNCHANGED seTrace
       ELSE IF dlMode \notin {"mock", "smtp", "gmail"}
       THEN /\ SendReturns("failed", "", "Unknown mode", seTrace)
            /\ UNCHANGED seTrace
       ELSE \E o \in Outcomes(dlMode) :
              /\ seTrace' = Append(seTrace, o)
              /\ CASE o = "ok" -> SendReturns("sent", dlMode, "", seTrace')
                   [] o = "auth" ->
                        \* the fallback send_mock returns, or raises out of
                        \* the handler
                        \/ SendReturns("sent", "mock", "", seTrace')
                        \/ /\ dlPc' = "raised"
                           /\ dlExc' = "OSError"
                           /\ UNCHANGED << dlIdx, dlResults, seAttempt, seSleeps >>
                   [] o = "err" ->
                        IF SendRetries(seAttempt)
                        THEN /\ seSleeps' = Append(seSleeps, 2 ^ (seAttempt + 1))
                             /\ seAttempt' = seAttempt + 1
                             /\ UNCHANGED << dlPc, dlIdx, dlResults, dlExc >>
                        ELSE SendReturns("failed", dlMode, ErrMsg(seAttempt + 1),
                                         seTrace')
    /\ UNCHANGED << dlMode, ctlVars >>

\* the loop is over: pipeline.py:349-351
DeliverReturns ==
    /\ dlPc = "loop"
    /\ dlIdx > Len(Recipients)
    /\ dlPc' = "done"
    /\ UNCHANGED << dlMode, dlIdx, dlResults, dlExc, seAttempt, seTrace, seSleeps,
                    ctlVars >>

\* the controller, while stage_deliver runs
Delivering == dlPc \in {"loop", "send"}

OutsideDelivery ==
    UNCHANGED << apiVars, procVars, clientVars, heurVars, raceVars, dbLeft,
                 scorerVars, dbVars, pipeVars, trendVars >>

DeliverCall == DeliverBegins /\ OutsideDelivery

DeliverStep == DeliverNext /\ OutsideDelivery

DeliverSend == SendAttempt /\ OutsideDelivery

DeliverEnd == DeliverReturns /\ OutsideDelivery

DeliverPause == Delivering /\ ~ctlPaused /\ pause /\ OutsideDelivery /\ UNCHANGED mailVars

DeliverResume == Delivering /\ ctlPaused /\ resume /\ OutsideDelivery /\ UNCHANGED mailVars

DeliverCancel == Delivering /\ ~ctlCancelled /\ cancel /\ OutsideDelivery /\ UNCHANGED mailVars

NextDelivery ==
    \/ DeliverCall \/ DeliverStep \/ DeliverSend \/ DeliverEnd
    \/ DeliverPause \/ DeliverResume \/ DeliverCancel

OutsideClient ==
    UNCHANGED << apiVars, procVars, heurVars, mailVars, raceVars, dbLeft, scorerVars,
                 dbVars, ctlVars, pipeVars, trendVars >>

ClientCall == AnalyzeBegins /\ OutsideClient

ClientAttempt == AnalyzeAttempt /\ OutsideClient

ClientReturn == AnalyzeReturns /\ OutsideClient

NextClient == ClientCall \/ ClientAttempt \/ ClientReturn

(***************************************************************************)
(* The heuristic classifier applied to one text after the other.           *)
(***************************************************************************)
HeuristicClassifies ==
    /\ Classifies
    /\ UNCHANGED << apiVars, procVars, clientVars, mailVars, raceVars, dbLeft,
                    scorerVars, dbVars, ctlVars, pipeVars, trendVars >>

NextHeuristic == HeuristicClassifies

\* everything but the database and the pipeline thread
OthersIdle ==
    /\ ApiInit /\ ProcInit /\ ClientIdle /\ HeuristicIdle /\ DeliveryIdle
    /\ ThreadsIdle
    /\ ScorerIdle

\* the history of the rows the run finds
LeftRecorded ==
    dbLeft = [id \in SignalIds |-> [status |-> dbStatus[id], bus |-> dbBus[id]]]

Init == OthersIdle /\ PipelineInit /\ LeftRecorded

(***************************************************************************)
(* The database an interrupted run leaves behind (pipeline.py:138-247,     *)
(* 421-435): every write of the stages is committed at once, so a run that *)
(* is cancelled or fails keeps what it has written.  The queues are in     *)
(* descending order, so the later signal is handled first.                 *)
(*   "collected"  cancelled at the check_point after stage_collect         *)
(*   "validating" cancelled inside the loop of stage_validate              *)
(*   "scoring"    failed at update_signal_status of the first signal of    *)
(*                the score stage ('database is locked'), after its        *)
(*                analysis and its signal_bus rows were committed          *)
(***************************************************************************)
Interruptions == {"collected", "validating", "scoring"}

LeftStatus(at) ==
    [id \in SignalIds |->
        CASE id = 1 -> IF at = "scoring" THEN "validated" ELSE "new"
          [] id = 2 -> IF at = "collected" THEN "new" ELSE "validated"
          [] OTHER -> "absent"]

LeftAnalysis(at) ==
    [id \in SignalIds |->
        IF at = "scoring" /\ id = 2 THEN RunAnalysis(2, "wide") ELSE NoAnalysis]

InterruptedRun(at) ==
    [status |-> HandlerStatus(IF at = "scoring" THEN "database is locked"
                              ELSE "PipelineCancelled"),
     error_message |-> HandlerMessage(IF at = "scoring" THEN "database is locked"
                                      ELSE "PipelineCancelled"),
     signals_collected |-> 0, signals_validated |-> 0, signals_scored |-> 0,
     finalized |-> 1]

InterruptedInit ==
    /\ \E at \in Interruptions :
         /\ dbStatus = LeftStatus(at)
         /\ dbAnalysis = LeftAnalysis(at)
         /\ dbBus = [id \in SignalIds |->
                       IF LeftAnalysis(at)[id] = NoAnalysis THEN {}
                       ELSE Range(LeftAnalysis(at)[id].bu_matches)]
         /\ dbRuns = << InterruptedRun(at) >>
    /\ trTrends = <<>>
    /\ trSnapshots = <<>>
    /\ trResult = NoTrendResult
    /\ trHist = NoTrendHist
    /\ PipelineIdle

InitInterrupted == OthersIdle /\ InterruptedInit /\ LeftRecorded

Next ==
    \/ PStart \/ PInitDb \/ PInsertRun
    \/ PCollectRss \/ PCollectCheck \/ PCollectInsert \/ PCheck1
    \/ PValidateStart \/ PValidateOne \/ PValidateEnd \/ PCheck2
    \/ PScoreStart \/ PScoreBatch \/ PScoring \/ PScoreResults
    \/ PPersistAnalysis \/ PPersistBus \/ PPersistStatus \/ PBatchDone
    \/ PScoreEnd \/ PCheck3
    \/ PNoSignals \/ PTrends \/ PCheck4 \/ PCompose \/ PCheck5
    \/ PDeliverStart \/ PDeliverOne \/ PCompleted
    \/ PExcept \/ PFinally
    \/ Pause \/ Resume \/ Cancel

Spec == Init /\ [][Next]_vars

\* the steps of the thread that executes run_full_pipeline
PipelineStep ==
    \/ PStart \/ PInitDb \/ PInsertRun
    \/ PCollectRss \/ PCollectCheck \/ PCollectInsert \/ PCheck1
    \/ PValidateStart \/ PValidateOne \/ PValidateEnd \/ PCheck2
    \/ PScoreStart \/ PScoreBatch \/ PScoring \/ PScoreResults
    \/ PPersistAnalysis \/ PPersistBus \/ PPersistStatus \/ PBatchDone
    \/ PScoreEnd \/ PCheck3
    \/ PNoSignals \/ PTrends \/ PCheck4 \/ PCompose \/ PCheck5
    \/ PDeliverStart \/ PDeliverOne \/ PCompleted
    \/ PExcept \/ PFinally

SpecScorer == Init /\ [][NextScorer]_vars

SpecApi == Init /\ [][NextApi]_vars

SpecTrends == Init /\ [][NextTrends]_vars

SpecStartup == Init /\ [][NextStartup]_vars

SpecClient == Init /\ [][NextClient]_vars

SpecHeuristic == Init /\ [][NextHeuristic]_vars

SpecDelivery == Init /\ [][NextDelivery]_vars

SpecControl == Init /\ [][NextControl]_vars

\* the run after an interrupted one
SpecResume == InitInterrupted /\ [][PipelineStep]_vars

(***************************************************************************)
(* Properties of the scoring engine (SpecScorer).                          *)
(***************************************************************************)
\* a score_signal call has ended
ScoreSignalEnded == scEntry = "score_signal" /\ scPc = "done"

\* the remote path gave nothing: the client is unavailable, analyze returned
\* None (retries exhausted, unparseable text), or validation rejected it
NoRemoteResult ==
    \/ ~scAvail
    \/ scRaw.kind = "none"
    \/ _validate_ai_result(scRaw).kind = "none"

\* the remote path gave a validated result
ValidatedRemoteResult ==
    /\ scAvail
    /\ score_signal_ai(Signal(scSignals[1]), scAvail, scRaw).kind = "ok"

\* C1: score_signal calls the remote path first; when the remote path gives
\* nothing it returns the heuristic analysis, tagged "heuristic"; when the
\* remote path gives a validated result it returns that result, tagged "ai",
\* and the heuristic is not run.
C1_RemoteFirstThenHeuristic ==
    ScoreSignalEnded =>
        /\ scCalls # <<>>
        /\ scCalls[1].fn = "score_signal_ai"
        /\ NoRemoteResult =>
              /\ scExc = ""
              /\ scResults = <<score_signal_heuristic(Signal(scSignals[1]))>>
              /\ scResults[1].analysis_method = "heuristic"
              /\ scCalls[Len(scCalls)].fn = "score_signal_heuristic"
        /\ ValidatedRemoteResult =>
              /\ scExc = ""
              /\ scResults = <<AnalysisFrom(_validate_ai_result(scRaw).val, "ai")>>
              /\ scResults[1].analysis_method = "ai"
              /\ \A k \in DOMAIN scCalls : scCalls[k].fn # "score_signal_heuristic"

\* a call that fell back after the backend answered with an object that
\* validation rejected
C1_Witness ==
    /\ ScoreSignalEnded
    /\ scAvail
    /\ scRaw.kind = "dict"
    /\ _validate_ai_result(scRaw).kind = "none"
    /\ scResults # <<>>
    /\ scResults[1].analysis_method = "heuristic"

\* a score_batch_ai call has ended
ScoreBatchEnded == scEntry = "score_batch_ai" /\ scPc = "done"

\* C5: whatever the backend does, score_batch_ai returns a list of exactly
\* len(signals) analyses, and result[i] is the analysis of signals[i].
C5_BatchLengthAndOrder ==
    ScoreBatchEnded =>
        /\ scExc = ""
        /\ Len(scResults) = Len(scSignals)
        /\ \A i \in DOMAIN scResults : scResults[i].about = scSignals[i]

\* what does hold of score_batch_ai: a call that returns, returns
\* len(signals) analyses in the order of its signals
BatchReturnsInOrder ==
    (ScoreBatchEnded /\ scExc = "") =>
        /\ Len(scResults) = Len(scSignals)
        /\ \A i \in DOMAIN scResults : scResults[i].about = scSignals[i]

\* C7: no shape of response makes score_signal or score_batch_ai raise.
C7_NeverRaises == scExc = ""

\* score_batch_ai made its batch request (the client is available and the
\* batch is not empty) and holds the response in raw_result
BatchRequested ==
    /\ scEntry = "score_batch_ai"
    /\ scCalls # <<>>
    /\ scCalls[1] = [fn |-> "analyze", sig |-> 0]

\* score_signal was called for signals[i] on its own: its first act is the
\* score_signal_ai call for that signal
RescoredIndividually(i) ==
    \E k \in DOMAIN scCalls : scCalls[k] = [fn |-> "score_signal_ai", sig |-> scSignals[i]]

\* the analysis score_batch_ai builds from the batch element at position i
BatchElementAnalysis(i) ==
    AnalysisFrom(_validate_ai_result(scRaw.items[i]).val, "ai-batch")

\* C27: when the batch response is missing, is not an array or has a length
\* different from the input, score_batch_ai trusts no element of it: every
\* signal of the batch is rescored individually through score_signal and no
\* returned analysis is tagged "ai-batch".
C27_DiscardedBatchRescoredEach ==
    (ScoreBatchEnded /\ BatchRequested /\ BatchDiscarded(scRaw, Len(scSignals))) =>
        /\ \A i \in DOMAIN scSignals : RescoredIndividually(i)
        /\ \A i \in DOMAIN scResults : scResults[i].analysis_method # "ai-batch"

\* what does hold of a discarded batch: no element of it is validated, no
\* analysis built so far is tagged "ai-batch", each is the return value of a
\* score_signal call for its signal, and the call ends either with every
\* signal rescored or on the exception of one of these score_signal calls
DiscardedBatchNeverTrusted ==
    (BatchRequested /\ BatchDiscarded(scRaw, Len(scSignals))) =>
        /\ \A k \in DOMAIN scCalls :
              scCalls[k].fn = "_validate_ai_result" =>
                  /\ k > 2
                  /\ scCalls[k - 1] = [fn |-> "analyze", sig |-> scCalls[k].sig]
        /\ \A i \in DOMAIN scResults :
              /\ scResults[i].analysis_method \in {"ai", "heuristic"}
              /\ scResults[i].about = scSignals[i]
              /\ RescoredIndividually(i)
        /\ (ScoreBatchEnded /\ scExc = "") =>
              /\ Len(scResults) = Len(scSignals)
              /\ \A i \in DOMAIN scSignals : RescoredIndividually(i)

\* C28: when the batch response is an array of the right length, an element
\* that fails validation causes individual rescoring (score_signal) of the
\* signal at that position only; every other position keeps its validated
\* batch element, tagged "ai-batch", and is not rescored.
C28_RescoresOnlyFailedElements ==
    (ScoreBatchEnded /\ BatchRequested /\ ~BatchDiscarded(scRaw, Len(scSignals))) =>
        /\ Len(scResults) = Len(scSignals)
        /\ \A i \in DOMAIN scResults :
              IF _validate_ai_result(scRaw.items[i]).kind = "ok"
              THEN /\ scResults[i] = BatchElementAnalysis(i)
                   /\ ~RescoredIndividually(i)
              ELSE /\ scResults[i].analysis_method \in {"ai", "heuristic"}
                   /\ scResults[i].about = scSignals[i]
                   /\ RescoredIndividually(i)

\* what does hold of an array of the right length: the positions reached
\* before the call returned or raised are as C28 says
BatchElementsKeptOrRescored ==
    (BatchRequested /\ ~BatchDiscarded(scRaw, Len(scSignals))) =>
        /\ \A i \in DOMAIN scResults :
              IF _validate_ai_result(scRaw.items[i]).kind = "ok"
              THEN /\ scResults[i] = BatchElementAnalysis(i)
                   /\ ~RescoredIndividually(i)
              ELSE /\ _validate_ai_result(scRaw.items[i]).kind = "none"
                   /\ scResults[i].analysis_method \in {"ai", "heuristic"}
                   /\ scResults[i].about = scSignals[i]
                   /\ RescoredIndividually(i)
        /\ (ScoreBatchEnded /\ scExc = "") => Len(scResults) = Len(scSignals)

\* _validate_ai_result was called on the response of a direct score_signal
\* call
ValidationCalled == ScoreSignalEnded /\ scAvail /\ scRaw.kind # "none"

\* the remote result is not an object
NotAnObject(result) == result.kind # "dict"

\* its category-match list is missing, empty or not a list
NoMatchList(result) ==
    \/ result.relevant_bus \in {BusAbsent, BusFalsy, BusOther}
    \/ result.relevant_bus = BusList(<<>>)

\* the fields of an accepted result after repair
Repaired(validated) ==
    /\ validated.signal_type \in VALID_SIGNAL_TYPES
    /\ \A i \in DOMAIN RequiredDims : validated.scores[RequiredDims[i]] \in 1..10
    /\ \A i \in DOMAIN validated.relevant_bus :
          validated.relevant_bus[i].relevance_score \in 0..1000
    /\ validated.headline # "absent"
    /\ validated.estimated_impact \notin {"absent", "", "null", "TBD"}

\* C29: _validate_ai_result discards (returns no result for) a remote result
\* if and only if the result is not an object or its category-match list is
\* missing, empty or not a list; every other defect is repaired and the
\* result is accepted.
C29_DiscardsOnlyUnmatched ==
    ValidationCalled =>
        /\ _validate_ai_result(scRaw).kind = "none"
              <=> (NotAnObject(scRaw) \/ NoMatchList(scRaw))
        /\ ~(NotAnObject(scRaw) \/ NoMatchList(scRaw)) =>
              /\ _validate_ai_result(scRaw).kind = "ok"
              /\ Repaired(_validate_ai_result(scRaw).val)

\* what does hold of _validate_ai_result: it returns None exactly for a
\* non-object and for a missing, empty or non-list category-match list, and
\* a result it returns is repaired
ValidationRejectsOnlyUnmatched ==
    ValidationCalled =>
        /\ _validate_ai_result(scRaw).kind = "none"
              <=> (NotAnObject(scRaw) \/ NoMatchList(scRaw))
        /\ _validate_ai_result(scRaw).kind = "ok" =>
              Repaired(_validate_ai_result(scRaw).val)

\* the raw dimension values of the test of the clamp: over the maximum,
\* negative, a float, zero
OutOfRangeScores == ScoresDict(DimVals(Num(150), Num(-30), Num(57), Num(0)))

\* C30: in every analysis score_signal or score_batch_ai returns, each of the
\* four dimension scores is an integer in [1,10], whatever numeric raw value
\* (float, negative, zero, greater than 10, missing) the response carried.
C30_DimensionScoresInRange ==
    scEntry \in {"score_signal", "score_batch_ai"} =>
        \A i \in DOMAIN scResults : \A d \in DOMAIN RequiredDims :
            scResults[i].scores[RequiredDims[d]] \in 1..10

\* score_signal returned the remote analysis of a response whose scores
\* were 15, -3, 5.7 and 0: they come back as 10, 1, 6 and 1
C30_Witness ==
    /\ ScoreSignalEnded
    /\ scExc = ""
    /\ scRaw.kind = "dict"
    /\ scRaw.scores = OutOfRangeScores
    /\ Len(scResults) = 1
    /\ scResults[1].analysis_method = "ai"
    /\ scResults[1].scores = DimVals(10, 1, 6, 1)

\* the configured weight of a dimension, in percent
WeightOf(dim) ==
    CASE dim = "revenue_impact" -> W_revenue_impact
      [] dim = "time_sensitivity" -> W_time_sensitivity
      [] dim = "strategic_alignment" -> W_strategic_alignment
      [] dim = "competitive_pressure" -> W_competitive_pressure

\* the weights sum to 1.0
WeightsSumToOne ==
    WeightOf("revenue_impact") + WeightOf("time_sensitivity")
        + WeightOf("strategic_alignment") + WeightOf("competitive_pressure") = 100

\* sum over the dimensions of weight * score, in hundredths
RECURSIVE WeightedSumFrom(_, _)
WeightedSumFrom(scores, d) ==
    IF d > Len(RequiredDims) THEN 0
    ELSE WeightOf(RequiredDims[d]) * scores[RequiredDims[d]]
         + WeightedSumFrom(scores, d + 1)

\* C31: with the configured weights summing to 1.0, the composite of every
\* returned analysis is the weighted sum of its own dimension scores
\* (to 2 decimals) and lies in [1,10].
C31_CompositeIsWeightedSum ==
    (WeightsSumToOne /\ scEntry \in {"score_signal", "score_batch_ai"}) =>
        \A i \in DOMAIN scResults :
            /\ scResults[i].composite = WeightedSumFrom(scResults[i].scores, 1)
            /\ scResults[i].composite \in 100..1000

\* score_batch_ai returned a batch element whose clamped scores differ from
\* one another, with the composite 0.35*7 + 0.25*6 + 0.25*8 + 0.15*4 = 6.55
C31_Witness ==
    /\ ScoreBatchEnded
    /\ scExc = ""
    /\ scResults # <<>>
    /\ scResults[1].analysis_method = "ai-batch"
    /\ scResults[1].scores = DimVals(7, 6, 8, 4)
    /\ scResults[1].composite = 655

\* the response with its signal_type replaced by a valid one
WithValidType(result) == [result EXCEPT !.signal_type = "competitive-threat"]

\* C33: every analysis score_signal or score_batch_ai returns has a
\* signal_type among the seven fixed types; a remote result whose signal_type
\* is unrecognized or missing is accepted with the type "market-shift", and
\* is never rejected for that reason.
C33_SignalTypeInEnum ==
    /\ scEntry \in {"score_signal", "score_batch_ai"} =>
          \A i \in DOMAIN scResults : scResults[i].signal_type \in VALID_SIGNAL_TYPES
    /\ (ValidationCalled /\ scRaw.kind = "dict"
            /\ scRaw.signal_type \notin VALID_SIGNAL_TYPES) =>
          /\ _validate_ai_result(scRaw).kind
                = _validate_ai_result(WithValidType(scRaw)).kind
          /\ scExc = "" =>
                /\ scResults[1].analysis_method = "ai"
                     <=> _validate_ai_result(WithValidType(scRaw)).kind = "ok"
                /\ scResults[1].analysis_method = "ai"
                     => scResults[1].signal_type = "market-shift"

\* score_signal returned the remote analysis of a response with the
\* signal_type "invalid-type", as "market-shift"
C33_Witness ==
    /\ ScoreSignalEnded
    /\ scExc = ""
    /\ scRaw.kind = "dict"
    /\ scRaw.signal_type = "invalid-type"
    /\ Len(scResults) = 1
    /\ scResults[1].analysis_method = "ai"
    /\ scResults[1].signal_type = "market-shift"

\* an estimated_impact that must not reach the output
Placeholder(impact) == impact \in {"absent", "", "null", "TBD"}

\* the tier of a revenue_impact score
TierOf(rev_score) ==
    CASE rev_score >= 8 -> "$1M-$5M potential revenue impact"
      [] rev_score \in 6..7 -> "$500K-$2M potential revenue impact"
      [] rev_score \in 4..5 -> "$200K-$500K potential revenue impact"
      [] OTHER -> "$100K-$200K potential revenue impact"

\* C35: no analysis score_signal or score_batch_ai returns has an
\* estimated_impact that is missing, empty or "TBD"; on the remote path such
\* a value is replaced by the tier of the revenue_impact score.
C35_NoPlaceholderImpact ==
    /\ scEntry \in {"score_signal", "score_batch_ai"} =>
          \A i \in DOMAIN scResults : ~Placeholder(scResults[i].estimated_impact)
    /\ (ScoreSignalEnded /\ scExc = "" /\ scResults[1].analysis_method = "ai") =>
          scResults[1].estimated_impact =
              IF Placeholder(scRaw.estimated_impact)
              THEN TierOf(scResults[1].scores.revenue_impact)
              ELSE scRaw.estimated_impact

\* score_signal returned the remote analysis of a response whose
\* estimated_impact was "TBD" and whose revenue_impact was 3.5, which is
\* rounded to 4 before the tier is chosen
C35_Witness ==
    /\ ScoreSignalEnded
    /\ scExc = ""
    /\ scRaw.kind = "dict"
    /\ scRaw.estimated_impact = "TBD"
    /\ Len(scResults) = 1
    /\ scResults[1].analysis_method = "ai"
    /\ scResults[1].scores.revenue_impact = 4
    /\ scResults[1].estimated_impact = "$200K-$500K potential revenue impact"

\* reachable: the lowest tier replaces a "TBD" (revenue_impact 2.5)
LowestTierChosen ==
    /\ ScoreSignalEnded
    /\ scExc = ""
    /\ scRaw.kind = "dict"
    /\ scRaw.estimated_impact = "TBD"
    /\ Len(scResults) = 1
    /\ scResults[1].analysis_method = "ai"
    /\ scResults[1].scores.revenue_impact = 2
    /\ scResults[1].estimated_impact = "$100K-$200K potential revenue impact"

(***************************************************************************)
(* The run after an interrupted one (SpecResume).                           *)
(***************************************************************************)
\* the signals the interrupted run left in status new or validated
LeftBehind == { id \in SignalIds : dbLeft[id].status \in {"new", "validated"} }

\* C39: no signal is stranded by an interrupted run: once the score stage of
\* the next run has finished, no signal has status new or validated, the
\* ones the interrupted run left behind included.
C39_NoSignalStranded ==
    hist.scoreReturned =>
        \A id \in SignalIds : dbStatus[id] \notin {"new", "validated"}

\* the run collected nothing, and its score stage has finished: the signal
\* the earlier run left as new and the one it left as validated are scored
C39_Witness ==
    /\ hist.scoreReturned
    /\ pCollected = 0
    /\ dbLeft[1].status = "new"
    /\ dbLeft[2].status = "validated"
    /\ dbStatus[1] = "scored"
    /\ dbStatus[2] = "scored"
    /\ 2 \notin hist.validated

\* the validate stage takes every signal with status new
ValidateTakesEveryNew ==
    [][ (pPc = "validate" /\ pPc' = "validate_loop") =>
            Range(pQueue') = { id \in SignalIds : dbStatus[id] = "new" } ]_vars

(***************************************************************************)
(* The category associations of a signal that is scored again (SpecResume). *)
(***************************************************************************)
\* the score stage of this run has committed the three writes of the signal
ScoredByThisRun(id) == hist.wrote[id] = {"analysis", "bus", "status"}

\* an earlier scoring of the signal wrote rows of signal_bus
ScoredBefore(id) == dbLeft[id].bus # {}

\* C40: after a signal is scored again, its rows of signal_bus are exactly
\* the matches (ids and relevance) of its latest analysis; the rows an earlier
\* scoring wrote and the latest analysis does not contain are gone.
C40_BusRowsAreLatestMatches ==
    \A id \in SignalIds :
        (ScoredByThisRun(id) /\ ScoredBefore(id)) =>
            dbBus[id] = Range(dbAnalysis[id].bu_matches)

\* The rows of a signal this run scored for the first time are the matches
\* of its analysis, the first one of each unit.
FirstScoringWritesItsMatches ==
    \A id \in SignalIds :
        (ScoredByThisRun(id) /\ ~ScoredBefore(id)) =>
            /\ dbBus[id] \subseteq Range(dbAnalysis[id].bu_matches)
            /\ \A m \in Range(dbAnalysis[id].bu_matches) :
                   \E r \in dbBus[id] : r.bu_id = m.bu_id

(***************************************************************************)
(* Properties of the delivery (SpecDelivery).                               *)
(***************************************************************************)
\* every attempt of the trace before the last one raised a transient exception
RetriedOnlyTransient(trace) ==
    \A k \in 1..(Len(trace) - 1) : trace[k] = "err"

\* all max_retries attempts raised a transient exception
AllAttemptsFailed(trace) ==
    /\ Len(trace) = SEND_MAX_RETRIES
    /\ \A k \in 1..SEND_MAX_RETRIES : trace[k] = "err"

ActiveRecipients == { i \in 1..Len(Recipients) : Recipients[i] = "active" }

\* what send_email does in one call
SendContract(r) ==
    /\ Len(r.trace) <= SEND_MAX_RETRIES
    /\ RetriedOnlyTransient(r.trace)
    /\ (r.trace # <<>> /\ r.trace[Len(r.trace)] = "ok") =>
          (r.status = "sent" /\ r.mode = dlMode)
    /\ AllAttemptsFailed(r.trace) =>
          (r.status = "failed" /\ r.error = ErrMsg(SEND_MAX_RETRIES))
    /\ (r.status = "failed" /\ dlMode \in {"mock", "smtp", "gmail"}) =>
          AllAttemptsFailed(r.trace)

\* C36: send_email makes at most max_retries attempts; it returns the first
\* successful result, tries again after an exception that is not a
\* RuntimeError, and after max_retries failed attempts returns a result with
\* status "failed" and the last error instead of raising; stage_deliver goes
\* on to the remaining recipients after a failed send.
C36_SendBoundedRetries ==
    /\ \A i \in DOMAIN dlResults : SendContract(dlResults[i])
    /\ dlPc = "send" =>
          /\ seAttempt < SEND_MAX_RETRIES
          /\ Len(seTrace) = seAttempt
          /\ \A k \in 1..Len(seTrace) : seTrace[k] = "err"
          /\ seSleeps = [k \in 1..seAttempt |-> 2 ^ k]
    /\ (dlPc = "raised" /\ dlExc # "PipelineCancelled") =>
          (seTrace # <<>> /\ seTrace[Len(seTrace)] = "auth")
    /\ dlPc = "done" =>
          { dlResults[i].recipient : i \in DOMAIN dlResults } = ActiveRecipients
    /\ \A i \in DOMAIN dlResults :
          (dlResults[i].status = "failed" /\ dlPc \in {"loop", "send"}) =>
              dlIdx > dlResults[i].recipient

\* the send to the first recipient failed after three attempts, the send to
\* the last one succeeded at its third attempt
C36_Witness ==
    /\ dlPc = "done"
    /\ Len(dlResults) = 2
    /\ dlResults[1].status = "failed"
    /\ dlResults[1].error = "e3"
    /\ dlResults[1].trace = << "err", "err", "err" >>
    /\ dlResults[2].status = "sent"
    /\ dlResults[2].mode = "gmail"
    /\ dlResults[2].trace = << "err", "err", "ok" >>
    /\ seSleeps = << 2, 4 >>

\* reachable: the fallback to send_mock raises, and stage_deliver with it
FallbackRaises ==
    /\ dlPc = "raised"
    /\ dlExc = "OSError"
    /\ dlIdx = 1

(***************************************************************************)
(* Properties of the control requests at the start of a run (SpecControl).  *)
(***************************************************************************)
\* a thread is about to call check_point()
BeforeCheckPoint(r) ==
    /\ bgPc[r] = "running"
    /\ rcPc[r] = "cp"
    /\ rcChecks[r] < RunCheckPoints

\* C38: a cancel or pause request the API accepted while it reported a run as
\* running is still set in the control object when the run reaches its next
\* check_point, under every interleaving with the start of the run.
C38_AcceptedRequestNotLost ==
    \A r \in Requests :
        BeforeCheckPoint(r) =>
            /\ "cancel" \in rcAccepted => ctlCancelled
            /\ "pause" \in rcAccepted => ctlPaused

\* The requests are lost to reset() only: as long as no reset() was called
\* over an accepted request, the accepted flags are set at the check_point.
AcceptedLostOnlyToReset ==
    \A r \in Requests :
        (BeforeCheckPoint(r) /\ "erased" \notin rcAccepted) =>
            /\ "cancel" \in rcAccepted => ctlCancelled
            /\ "pause" \in rcAccepted => ctlPaused

\* reachable: a cancel accepted after the reset() of the run is raised by
\* the next check_point
CancelAfterResetRaises ==
    /\ rcAccepted = {"cancel"}
    /\ apiLastResult = "cancelled"
    /\ \E r \in Requests : bgPc[r] = "ran" /\ rcPc[r] = "end"

(***************************************************************************)
(* Properties of the heuristic classifier (SpecHeuristic).                 *)
(***************************************************************************)
\* the keyword families in their fixed order
Families ==
    << [type |-> "competitive-threat",
        keywords |-> {"competitor", "competes", "launch", "threat", "rival"}],
       [type |-> "revenue-opportunity",
        keywords |-> {"rfi", "rfp", "order", "partner", "revenue", "opportunity",
                      "seeking"}],
       [type |-> "trade-tariff",
        keywords |-> {"tariff", "trade", "duty", "import", "export"}],
       [type |-> "partnership-signal",
        keywords |-> {"acqui", "partner", "alliance", "joint venture"}],
       [type |-> "technology-trend",
        keywords |-> {"patent", "innovation", "breakthrough", "technology"}] >>

\* the families with a keyword in the text
Matching(words) == { k \in DOMAIN Families : Families[k].keywords \cap words # {} }

\* C34: the classifier returns the type of the first family, in the fixed
\* order, that has a keyword in the text, and market-shift when none has.
C34_FirstFamilyWins ==
    hcType # "" =>
        IF Matching(hcText) = {} THEN hcType = "market-shift"
        ELSE \E k \in Matching(hcText) :
                /\ \A j \in Matching(hcText) : k <= j
                /\ hcType = Families[k].type

\* a text with keywords of the opportunity, tariff and technology families
\* got the type of the earliest of them
C34_Witness ==
    /\ {"order", "tariff", "patent"} \subseteq hcText
    /\ Cardinality(Matching(hcText)) >= 3
    /\ 1 \notin Matching(hcText)
    /\ hcType = "revenue-opportunity"

(***************************************************************************)
(* Properties of the client (SpecClient).                                  *)
(***************************************************************************)
TransientErrors == {"rate_limit", "api_error"}

\* C32: analyze ends after at most max_retries requests to the backend; it
\* makes another request only after a rate-limit or API error, having waited
\* 2^k seconds before the k-th retry; it returns the parsed value of the
\* first response it gets, and None when the retries are exhausted or when a
\* response cannot be parsed or an unexpected error occurs, without retrying.
C32_AnalyzeBoundedRetries ==
    /\ anRequests <= MAX_RETRIES
    /\ anPc = "loop" => (anAttempt = anRequests /\ anAttempt <= MAX_RETRIES)
    /\ \A k \in 2..anRequests : anBackend[k - 1].t \in TransientErrors
    /\ \A k \in 1..(anRequests - 1) : Len(anSleeps) >= k /\ anSleeps[k] = 2 ^ k
    /\ anPc = "done" =>
          IF ~anAvail THEN anRequests = 0 /\ anResult = RawNone
          ELSE /\ anRequests >= 1
               /\ \/ /\ anBackend[anRequests].t = "text"
                     /\ anResult = anBackend[anRequests].raw
                  \/ /\ anBackend[anRequests].t = "error"
                     /\ anResult = RawNone
                  \/ /\ anBackend[anRequests].t \in TransientErrors
                     /\ anRequests = MAX_RETRIES
                     /\ anResult = RawNone
               /\ anResult = analyze(anBackend)

\* a call answered at the third request, after a rate-limit error and an API
\* error: it waited 2 s and 4 s and returns the parsed object
C32_Witness ==
    /\ anPc = "done"
    /\ anRequests = MAX_RETRIES
    /\ anBackend[1].t = "rate_limit"
    /\ anBackend[2].t = "api_error"
    /\ anSleeps = <<2, 4>>
    /\ anResult.kind = "dict"

\* the retries are exhausted by rate-limit errors: analyze has slept a third
\* time, 8 s, before it gives up
SleepsBeforeGivingUp ==
    /\ anPc = "done"
    /\ anRequests = MAX_RETRIES
    /\ anSleeps = <<2, 4, 8>>
    /\ anResult = RawNone

(***************************************************************************)
(* Properties of a pipeline run (Spec).                                    *)
(***************************************************************************)
\* the PipelineRun record of the run
LastRun == dbRuns[Len(dbRuns)]

\* run_full_pipeline has returned (it raises only before the record exists)
Returned == pPc = "done" /\ pReturn.status # "raised"

TerminalStatuses == {"completed", "failed", "cancelled"}

C6_PersistedHasMatches ==
    \A id \in SignalIds :
        "analysis" \in hist.wrote[id] => dbAnalysis[id].bu_matches # <<>>

\* the run met no exception of its own (database, network, rendering)
NoStageFault == hist.fault \notin Messages

\* what a run whose backend requests all failed has done when it returns
RemoteDownOutcome ==
    (Returned /\ hist.remoteDown /\ ~hist.cancelIssued /\ NoStageFault) =>
        /\ LastRun.status = "completed"
        /\ pReturn.status = "completed"
        /\ \A id \in hist.validated :
              /\ dbStatus[id] = "scored"
              /\ dbAnalysis[id].analysis_method = "heuristic"

\* C8: when every request to the backend meets a rate-limit or API error
\* and nobody cancels, the run ends completed, and every signal the run
\* validated is scored with an analysis tagged "heuristic"; and on its way
\* there the run always has a next step to take unless it is paused (its
\* loops are bounded, so it comes to its end).
C8_RemoteDownStillCompletes ==
    /\ RemoteDownOutcome
    /\ (Running /\ ctlEvent) => ENABLED PipelineStep

\* a completed run whose client was available and whose requests all failed
C8_Witness ==
    /\ Returned
    /\ hist.remoteDown
    /\ hist.remoteCalled
    /\ ~hist.cancelIssued
    /\ Cardinality(hist.validated) > AI_BATCH_SIZE
    /\ LastRun.status = "completed"

AllWrites == {"analysis", "bus", "status"}

\* C9: in a run that ends cancelled, every signal has all of its analysis,
\* its signal_bus rows and its status "scored" committed by the run, or none
\* of them; and the batches persisted before the cancellation was seen are
\* intact.
C9_NoPartialCommit ==
    (Returned /\ LastRun.status = "cancelled") =>
        /\ \A id \in SignalIds :
              /\ hist.wrote[id] \in {{}, AllWrites}
              /\ hist.wrote[id] = AllWrites =>
                    /\ dbStatus[id] = "scored"
                    /\ dbAnalysis[id] # NoAnalysis
                    /\ \A k \in DOMAIN dbAnalysis[id].bu_matches :
                          \E row \in dbBus[id] :
                              row.bu_id = dbAnalysis[id].bu_matches[k].bu_id
        /\ \A id \in hist.batchesDone : hist.wrote[id] = AllWrites

\* a run cancelled at the check_point between two batches of the score stage
C9_Witness ==
    /\ Returned
    /\ LastRun.status = "cancelled"
    /\ "scoring" \in hist.reached
    /\ hist.batchesDone # {}
    /\ \E id \in hist.validated : hist.wrote[id] = {}

C11_ConnectionClosedOnExit == pPc = "done" => ~connOpen

\* the thread is at a call of pipeline_control.check_point()
AtCheckPoint ==
    \/ pPc \in {"collect_cp", "cp1", "cp2", "cp3", "cp4", "cp5"}
    \/ pPc \in {"validate_loop", "score_batch"} /\ pIdx <= Len(pQueue)
    \/ pPc = "deliver_loop" /\ pIdx <= Len(Recipients) /\ Recipients[pIdx] = "active"

\* the thread moves on
ThreadMoves ==
    \/ pPc' # pPc \/ pIdx' # pIdx \/ pExc' # pExc
    \/ pDelivery' # pDelivery \/ scCalls' # scCalls \/ dbStatus' # dbStatus

\* C12: a check_point() called while the control object is paused and not
\* cancelled does not return: the thread stays where it is, no scoring batch
\* starts and nothing is sent, until resume() or cancel(); and a check_point()
\* that lets the thread go raises PipelineCancelled exactly when cancel() has
\* been called, and returns normally otherwise.
C12_CheckPointBlocksWhilePaused ==
    [][ /\ (AtCheckPoint /\ ctlPaused /\ ~ctlCancelled) => ~ThreadMoves
        /\ (AtCheckPoint /\ ThreadMoves) =>
              /\ ~ctlPaused \/ ctlCancelled
              /\ ctlCancelled <=> pExc' = "PipelineCancelled"
              /\ ctlCancelled <=> hist'.cancelRaised ]_vars

\* the thread blocked at the check_point between two scoring batches
C12_Witness ==
    /\ pPc = "score_batch"
    /\ pIdx > 1
    /\ pIdx <= Len(pQueue)
    /\ ctlPaused
    /\ ~ctlCancelled
    /\ ~ENABLED PipelineStep

\* C13: between every two consecutive stages, before every scoring batch and
\* before every send to an active recipient a check_point() is executed: at
\* no time has the run begun more than one of these since the last
\* check_point() that returned.
C13_CheckPointBetweenOperations == Len(hist.sinceCheck) <= 1

\* a completed run with two scoring batches and two sends
C13_Witness ==
    /\ Returned
    /\ LastRun.status = "completed"
    /\ Cardinality(hist.batchesDone) > AI_BATCH_SIZE
    /\ Len(pDelivery) = 2
    /\ hist.sinceCheck = <<"send">>

\* the signals the score stage of the run has processed
Processed == { id \in SignalIds : hist.wrote[id] = AllWrites }

\* no signal the run scored reaches the threshold
NoSurvivor ==
    \A id \in SignalIds :
        "status" \in hist.wrote[id] => dbAnalysis[id].composite < min_score

\* C14: when no signal survives the threshold (also when there was no
\* validated signal at all), the trend update, the composition and the
\* delivery are never entered, and the run, unless it is cancelled or meets
\* an exception, ends completed with signals_scored = 0.
C14_ZeroSignalRunCompletes ==
    (hist.scoreReturned /\ NoSurvivor) =>
        /\ hist.reached \cap {"trends", "composition", "delivery"} = {}
        /\ pDelivery = <<>>
        /\ (Returned /\ ~hist.cancelRaised /\ NoStageFault) =>
              /\ LastRun.status = "completed"
              /\ LastRun.signals_scored = 0
              /\ pReturn.status = "completed"
              /\ pReturn.signals_scored = 0

\* a completed run whose signals were all scored below the threshold
C14_Witness ==
    /\ Returned
    /\ hist.scoreReturned
    /\ NoSurvivor
    /\ Cardinality(Processed) >= 2
    /\ LastRun.status = "completed"
    /\ LastRun.signals_scored = 0

\* C15: every signal the score stage has processed has the analysis the
\* scorer returned for it persisted, composite included, and the status
\* "scored", whatever its composite; when stage_score returns it has
\* processed every validated signal; and a signal is in the digest-bound set
\* only if its composite is at least the include_in_digest minimum.
C15_PersistedRegardlessOfThreshold ==
    /\ \A id \in Processed :
          /\ dbAnalysis[id] = hist.gave[id]
          /\ dbAnalysis[id].composite = hist.gave[id].composite
          /\ dbStatus[id] = "scored"
    /\ hist.scoreReturned => Range(pQueue) \subseteq Processed
    /\ \A k \in DOMAIN pScored :
          /\ pScored[k].id \in Processed
          /\ pScored[k].composite_score = hist.gave[pScored[k].id].composite
          /\ pScored[k].composite_score >= min_score

\* stage_score returned a digest-bound set and left one signal out of it that
\* is persisted as scored with its composite below the threshold
C15_Witness ==
    /\ hist.scoreReturned
    /\ pScored # <<>>
    /\ \E id \in Range(pQueue) :
          /\ dbStatus[id] = "scored"
          /\ dbAnalysis[id].composite < min_score
          /\ dbAnalysis[id].composite > 0
          /\ \A k \in DOMAIN pScored : pScored[k].id # id

\* the signals of the stage that reached the threshold, and those returned
Passing == { id \in Range(pQueue) : hist.gave[id].composite >= min_score }
Kept == { pScored[k].id : k \in DOMAIN pScored }

\* the place of a signal in the order the stage scored them
ScoringOrder(id) == CHOOSE i \in DOMAIN pQueue : pQueue[i] = id

\* C16: the set stage_score returns is ordered by composite non-increasing,
\* has at most max_signals_per_digest signals (all the passing ones when
\* they are fewer), keeps the top-scored ones (no passing signal left out has
\* a composite above one that was kept), and signals of equal composite keep
\* their scoring order.
C16_SortedCappedStable ==
    hist.scoreReturned =>
        /\ \A i, j \in DOMAIN pScored :
              i < j => pScored[i].composite_score >= pScored[j].composite_score
        /\ Len(pScored) = Min(Cardinality(Passing), MAX_SIGNALS_PER_DIGEST)
        /\ Cardinality(Kept) = Len(pScored)
        /\ Kept \subseteq Passing
        /\ \A out \in Passing \ Kept : \A in \in Kept :
              hist.gave[out].composite <= hist.gave[in].composite
        /\ \A i, j \in DOMAIN pScored :
              (i < j /\ pScored[i].composite_score = pScored[j].composite_score)
                  => ScoringOrder(pScored[i].id) < ScoringOrder(pScored[j].id)

\* a capped set: more signals passed than the digest takes, the one left out
\* scored below a kept one, and two kept ones tie
C16_Witness ==
    /\ hist.scoreReturned
    /\ Cardinality(Passing) > MAX_SIGNALS_PER_DIGEST
    /\ Len(pScored) = MAX_SIGNALS_PER_DIGEST
    /\ pScored[1].composite_score = pScored[2].composite_score
    /\ \E out \in Passing \ Kept :
          hist.gave[out].composite < pScored[1].composite_score

\* the place of a stage in the order of the run; 0 for no stage
StageOrder ==
    << "collection", "validation", "scoring", "trends", "composition", "delivery" >>
StageRank(stage) ==
    IF stage = "" THEN 0 ELSE CHOOSE i \in DOMAIN StageOrder : StageOrder[i] = stage

\* C25: within a run current_stage changes only to a later stage of
\* collection, validation, scoring, trends, composition, delivery (none is
\* entered again), the work of a stage is done while current_stage names it
\* (statuses are set to validated in validation, analyses are written in
\* scoring, the trends are updated in trends, digests are sent in delivery),
\* and current_stage is the empty string when the run has been left.
C25_StagesForwardThenReset ==
    [][ /\ ctlStage' # ctlStage =>
              \/ ctlStage' = "" /\ pPc' = "done"
              \/ ctlStage' # "" /\ StageRank(ctlStage') > StageRank(ctlStage)
        /\ (\E id \in SignalIds : dbStatus'[id] = "validated" /\ dbStatus[id] # "validated")
              => ctlStage = "validation" /\ ctlStage' = "validation"
        /\ dbAnalysis' # dbAnalysis => ctlStage = "scoring" /\ ctlStage' = "scoring"
        /\ trHist'.calls # trHist.calls => ctlStage' = "trends"
        /\ Len(pDelivery') > Len(pDelivery) => ctlStage = "delivery" /\ ctlStage' = "delivery"
        /\ pPc' = "done" => ctlStage' = "" ]_vars

\* a run that went through the six stages and has returned
C25_Witness ==
    /\ pPc = "done"
    /\ ctlStage = ""
    /\ hist.reached = Range(StageOrder)
    /\ pDelivery # <<>>
    /\ pReturn.status = "completed"

\* C26: the status of a signal changes only from new to validated, in the
\* validate stage, from validated to scored, in the score stage, and to new,
\* in the collect stage (a new row, or the reset of a row that is collected
\* again); so no signal becomes scored that was not validated.
C26_StatusLifecycle ==
    [][ \A id \in SignalIds :
          dbStatus'[id] # dbStatus[id] =>
              \/ /\ dbStatus[id] = "new"
                 /\ dbStatus'[id] = "validated"
                 /\ ctlStage = "validation"
              \/ /\ dbStatus[id] = "validated"
                 /\ dbStatus'[id] = "scored"
                 /\ ctlStage = "scoring"
              \/ /\ dbStatus'[id] = "new"
                 /\ ctlStage = "collection" ]_vars

\* a run that has collected, validated and scored a signal, beside a signal an
\* earlier run scored
C26_Witness ==
    /\ pPc = "done"
    /\ \E id \in hist.validated : "status" \in hist.wrote[id] /\ dbStatus[id] = "scored"
    /\ \E id \in SignalIds \ hist.validated : dbStatus[id] = "scored"
    /\ pCollected = NumSignals

\* C23: collecting a signal whose external_id is in the table already leaves
\* one row for it and resets the row's status to new, whatever the connection
\* inserted before: when stage_collect has collected every signal, every
\* signal is new, those that earlier runs scored included.
C23_RecollectedIsReset ==
    [][ (pPc = "collect_insert" /\ pPc' = "cp1" /\ pCollected' = NumSignals)
            => \A id \in SignalIds : dbStatus'[id] = "new" ]_vars

(***************************************************************************)
(* Properties of the trend tracker (SpecTrends, and the trend step of a    *)
(* run in Spec).                                                           *)
(***************************************************************************)
\* the Trend record of a key
TrendOf(key) == trTrends[FindTrend(trTrends, key)]

\* C17: update_trends classifies a key that has a Trend record by comparing
\* the count of this call (new) with the count the key had in the call
\* before (old): spike if new > 1.5 * old, else rising if new > old, else
\* declining if new < old, else stable; a key without a record is new.  So
\* 10 then 16 is a spike, 10 then 11 rising, 10 then 10 stable, 10 then 7
\* declining, also for a key seen in more than two runs.
C17_MomentumAgainstPreviousCount ==
    /\ Momentum(16, 10) = "spike"
    /\ Momentum(11, 10) = "rising"
    /\ Momentum(10, 10) = "stable"
    /\ Momentum(7, 10) = "declining"
    /\ \A key \in trHist.touched :
          TrendOf(key).momentum =
              IF trHist.prev[key] = -1 THEN "new"
              ELSE Momentum(trHist.counts[key], trHist.prev[key])

\* what does hold: the comparison is with the cumulative occurrence_count
MomentumAgainstOccurrenceCount ==
    \A key \in trHist.touched :
        TrendOf(key).momentum =
            IF trHist.before[key] = 0 THEN "new"
            ELSE Momentum(trHist.counts[key], trHist.before[key])

\* C18: update_trends aggregates the signals scored in the current run and
\* no others: a signal scored in an earlier run and not scored again adds
\* nothing to the counts of the call.
C18_AggregatesCurrentRunOnly == trHist.aggregated \subseteq trHist.fresh

\* C19: no Trend record is ever deleted, occurrence_count and max_score never
\* decrease, and a call adds to the occurrence_count of every key it
\* aggregated exactly the count it aggregated for the key, and leaves the
\* occurrence_count of every other key as it was.
C19_TrendsOnlyGrow ==
    [][ /\ Len(trTrends') >= Len(trTrends)
        /\ \A i \in DOMAIN trTrends :
              /\ trTrends'[i].trend_key = trTrends[i].trend_key
              /\ trTrends'[i].occurrence_count >= trTrends[i].occurrence_count
              /\ trTrends'[i].max_score >= trTrends[i].max_score
              /\ (trHist'.calls = trHist.calls \/ trTrends[i].trend_key \notin trHist'.touched)
                    => trTrends'[i].occurrence_count = trTrends[i].occurrence_count
        /\ trHist'.calls # trHist.calls =>
              \A key \in trHist'.touched :
                  /\ FindTrend(trTrends', key) # 0
                  /\ trHist'.before[key] =
                        (IF FindTrend(trTrends, key) = 0 THEN 0
                         ELSE trTrends[FindTrend(trTrends, key)].occurrence_count)
                  /\ trTrends'[FindTrend(trTrends', key)].occurrence_count
                        = trHist'.before[key] + trHist'.counts[key] ]_vars

\* three calls: a record whose occurrence_count is above the count of the
\* latest call, beside a record the latest call created
C19_Witness ==
    /\ trHist.calls = 3
    /\ \E key \in trHist.touched :
          /\ trHist.before[key] > trHist.counts[key]
          /\ TrendOf(key).occurrence_count = trHist.before[key] + trHist.counts[key]
    /\ \E key \in trHist.touched : trHist.before[key] = 0

\* the snapshots of a trend for an ISO week
SnapshotsOf(trend_id, week) ==
    { i \in DOMAIN trSnapshots :
        /\ trSnapshots[i].trend_id = trend_id
        /\ trSnapshots[i].week_number = week.week
        /\ trSnapshots[i].year = week.year }

\* C20: there is at most one TrendSnapshot per (trend, ISO week, ISO year);
\* every key the latest call aggregated has exactly one snapshot for the
\* week of the call, holding the count of that call: a second call in the
\* same week replaces the snapshot.
C20_OneSnapshotPerTrendWeek ==
    /\ \A i, j \in DOMAIN trSnapshots :
          SnapshotConflict(trSnapshots[i], trSnapshots[j]) => i = j
    /\ \A key \in trHist.touched :
          LET mine == SnapshotsOf(FindTrend(trTrends, key), _get_current_week(trHist.at))
          IN  /\ Cardinality(mine) = 1
              /\ \A i \in mine : trSnapshots[i].signal_count = trHist.counts[key]

\* three calls, two of them in one week: a trend with a snapshot for week 52
\* of each year, the later one replaced once
C20_Witness ==
    /\ trHist.calls = 3
    /\ trHist.at = 3
    /\ \E i, j \in DOMAIN trSnapshots :
          /\ trSnapshots[i].trend_id = trSnapshots[j].trend_id
          /\ trSnapshots[i].week_number = trSnapshots[j].week_number
          /\ trSnapshots[i].year < trSnapshots[j].year
          /\ trSnapshots[i].signal_count < trSnapshots[j].signal_count
          /\ \A k \in DOMAIN trSnapshots :
                trSnapshots[k].trend_id = trSnapshots[i].trend_id => k \in {i, j}

\* the entries of the returned notable list for a key
NotableOf(key) == { i \in DOMAIN trResult.notable : trResult.notable[i].trend = key }

\* C21: the notable list a call returns has exactly one entry for every key
\* the call classified new, spike or rising, and none for a key it
\* classified stable or declining (nor for any other key); trends_updated is
\* the number of distinct keys the call aggregated.
C21_NotableAndCount ==
    /\ \A key \in trHist.touched :
          Cardinality(NotableOf(key)) =
              (IF TrendOf(key).momentum \in {"new", "spike", "rising"} THEN 1 ELSE 0)
    /\ \A i \in DOMAIN trResult.notable :
          /\ trResult.notable[i].trend \in trHist.touched
          /\ trResult.notable[i].momentum = TrendOf(trResult.notable[i].trend).momentum
          /\ trResult.notable[i].count = trHist.counts[trResult.notable[i].trend]
    /\ trResult.trends_updated = Cardinality(trHist.touched)

\* a call that found a new key, a key that rose and a key that did not
C21_Witness ==
    /\ trHist.calls >= 2
    /\ \E key \in trHist.touched : TrendOf(key).momentum = "new"
    /\ \E key \in trHist.touched : TrendOf(key).momentum \in {"spike", "rising"}
    /\ \E key \in trHist.touched :
          /\ TrendOf(key).momentum \in {"stable", "declining"}
          /\ NotableOf(key) = {}

\* the signal type and the matched units of an aggregated signal
TypeOfSignal(id) == dbAnalysis[id].signal_type
UnitsOfSignal(id) == { r.bu_id : r \in dbBus[id] }
AllUnits == UNION { UnitsOfSignal(id) : id \in SignalIds }

\* the occurrences the aggregated signals owe a key: one per signal of the
\* type, one per (signal, unit) pair of the pair key, one per (signal, unit)
\* of the unit, one per (signal, competitor named in its text)
OwedCount(key) ==
    Cardinality({ id \in trHist.aggregated : TypeKey(TypeOfSignal(id)) = key })
    + Cardinality({ p \in trHist.aggregated \X AllUnits :
                      /\ p[2] \in UnitsOfSignal(p[1])
                      /\ BuTypeKey(p[2], TypeOfSignal(p[1])) = key })
    + Cardinality({ p \in trHist.aggregated \X AllUnits :
                      /\ p[2] \in UnitsOfSignal(p[1])
                      /\ BuKey(p[2]) = key })
    + Cardinality({ p \in trHist.aggregated \X Competitors :
                      /\ p[2] \in SignalWords(p[1])
                      /\ CompetitorKey(p[2]) = key })

\* C22: every aggregated signal of type T with matched units B adds one
\* occurrence to the key of T, one to the key of each (b, T) with b in B, one
\* to the key of each b in B and one to the key of each competitor its text
\* names, and nothing else is counted: the count of a call for a key (the
\* signal_count of the key's snapshot) is the number of those occurrences,
\* and the count of a type key is the number of aggregated signals of the type.
C22_OneOccurrencePerKeyKind ==
    /\ \A id \in trHist.aggregated :
          /\ TypeKey(TypeOfSignal(id)) \in trHist.touched
          /\ \A b \in UnitsOfSignal(id) :
                /\ BuTypeKey(b, TypeOfSignal(id)) \in trHist.touched
                /\ BuKey(b) \in trHist.touched
          /\ \A c \in Competitors \cap SignalWords(id) :
                CompetitorKey(c) \in trHist.touched
          /\ \A i \in SnapshotsOf(FindTrend(trTrends, TypeKey(TypeOfSignal(id))),
                                  _get_current_week(trHist.at)) :
                trSnapshots[i].signal_count =
                    Cardinality({ j \in trHist.aggregated :
                                    TypeOfSignal(j) = TypeOfSignal(id) })
    /\ \A key \in trHist.touched :
          LET mine == SnapshotsOf(FindTrend(trTrends, key), _get_current_week(trHist.at))
          IN  /\ mine # {}
              /\ OwedCount(key) > 0
              /\ \A i \in mine : trSnapshots[i].signal_count = OwedCount(key)

\* a call that aggregated two signals of one type, one of them with two
\* matched units and one that names a competitor
C22_Witness ==
    /\ trHist.calls >= 1
    /\ \E id, j \in trHist.aggregated :
          /\ id # j
          /\ TypeOfSignal(id) = TypeOfSignal(j)
          /\ Cardinality(UnitsOfSignal(id)) >= 2
          /\ UnitsOfSignal(j) # UnitsOfSignal(id)
    /\ \E id \in trHist.aggregated : Competitors \cap SignalWords(id) # {}

(***************************************************************************)
(* Cancellation against later pause requests (Spec).                       *)
(***************************************************************************)
\* C37: once cancel() has been called during a run, every later
\* check_point() of that run raises the cancellation signal without
\* blocking, whatever pause() and resume() calls follow the cancel.
C37_CancelledNeverBlocks ==
    (AtCheckPoint /\ ctlCancelled) => CheckPointOpen

\* what does hold: while no pause() follows it, cancel() leaves the event
\* set, and a check_point() that returns after cancel() raises
CancelUnblocksUntilPaused ==
    [][ /\ (ctlCancelled' /\ ~ctlCancelled) => ctlEvent'
        /\ (ctlCancelled /\ ctlEvent /\ ctlEvent' = FALSE) => (ctlPaused' /\ ~ctlPaused)
        /\ (AtCheckPoint /\ ctlCancelled /\ ThreadMoves) => pExc' = "PipelineCancelled" ]_vars

(***************************************************************************)
(* Properties of process startup (SpecStartup).                            *)
(***************************************************************************)
\* C24: once the startup of a process has completed, no PipelineRun record
\* that an earlier process left running is still running: each is failed.
C24_NoStaleRunAfterStartup ==
    procPc = "up" => \A i \in procStale : dbRuns[i].status = "failed"

\* what does hold: a server whose startup handler met no exception
StaleRunsFailedByServer ==
    [][ (procPc = "startup" /\ procPc' = "up" /\ procKind = "server"
            /\ dbRuns' # dbRuns)
          => \A i \in procStale : dbRuns'[i].status = "failed" ]_vars

(***************************************************************************)
(* Properties of the API server (SpecApi).                                 *)
(***************************************************************************)
\* C4: at most one pipeline run is active at any time, and no request that
\* arrives while a thread started for an earlier request is alive is
\* accepted.
C4_AtMostOneActiveRun == Cardinality(ActiveRuns) <= 1

=============================================================================
